---- MODULE Spec2Model ----
(***************************************************************************)
(* Ledger (PartyManager) and inventory (StockManager) logic of the billing *)
(* application, with the remote item store they talk to.                   *)
(*                                                                         *)
(* Money amounts and kilograms are integers.  Item stock is kept in        *)
(* hundredths of a bag (the code rounds every stock it writes to two       *)
(* decimals), Bardana stock in kilograms.                                  *)
(***************************************************************************)
EXTENDS Integers, Sequences, FiniteSets, TLC

(***************************************************************************)
(* Bounds of the model.                                                    *)
(***************************************************************************)
MaxTx == 4          \* longest transaction list folded
MaxAmount == 2      \* largest transaction amount
MaxLines == 2       \* most line items on one document
MaxCalls == 2       \* stock adjustment calls started in one behaviour
MaxFailures == 1    \* requests the item store rejects in one behaviour
MaxRows == 1        \* most sales, purchases and payments the backend holds, each
MaxParties == 2     \* most parties the backend lists
MaxFetches == 1     \* balance computations a screen starts in one behaviour
MaxSequence == 3    \* calls of a sale, its revert and the sale again
MaxItems == 3       \* most items the screens create in one behaviour, Bardana included
MaxFormLines == 2   \* most line items on the form of a document
MaxRequests == 4    \* calls of apiRequest in one behaviour

VARIABLES
    \* ---- ledger ----
    transactions,       \* the PartyTransaction[] being folded
    breakdown,          \* <<b>>: calculatePartyBalanceFromTransactions returned b; <<>>: not run
    reference,          \* <<b>>: the first breakdown returned for these transactions
    reordered,          \* the list was reordered since `reference` was taken
    \* ---- inventory ----
    openingStock,       \* item store: productName -> openingStock, in 1/100 bag
    bardanaKg,          \* item store: Bardana stock, in kg
    processedInvoices,  \* StockManager.processedInvoices
    lineItems,          \* the line items of the document being applied
    call,               \* slot -> the StockManager call running in it
    prev,               \* the call that completed before the current one
    ncalls,             \* calls started so far
    nfailures,          \* requests rejected so far
    answer,             \* what the last query helper of StockManager returned
    \* ---- ledger, fetched from the backend ----
    store,              \* backend: the sales, purchases, payments and parties it holds
    requestCache,       \* apiRequest: the GET endpoints with a request in flight
    fetch,              \* caller -> its calculatePartyBalanceFromTransactions call
    listing,            \* the getPartiesWithBalances call
    nfetches,           \* calculatePartyBalanceFromTransactions calls a screen started
    \* ---- item screens ----
    storedItem,         \* backend: <<i>> the item the screens created, <<>> before
    itemForm,           \* <<f>>: the form of the edit screen, in kg; <<>>: not loaded
    enteredKg,          \* <<k>>: the kg typed into the form that was last saved
    \* ---- item catalogue ----
    catalogue,          \* backend: the items it holds
    screenItems,        \* ItemsScreen: its `items` state
    editedItem,         \* EditItemsScreen: <<i>> its `item` state, <<>> when not open
    editedName,         \* EditItemsScreen: itemForm.productName
    deleteRequests,     \* the items a deleteItem request was sent for
    \* ---- line items ----
    lineForms,          \* the document form in use and the add-items screen over it
    \* ---- apiRequest ----
    api,                \* requestCache, the fetches in flight and the callers of apiRequest
    \* ---- payment edit screens ----
    payEdit,            \* the payment being edited, its form and the party's stored balance
    \* ---- getPartyBalance ----
    partyBalance        \* what getPartyBalance returned, and whether its reads succeeded

ledgerVars == <<transactions, breakdown, reference, reordered>>
stockVars == <<openingStock, bardanaKg, processedInvoices, lineItems, call,
               prev, ncalls, nfailures>>
queryVars == <<answer>>
fetchVars == <<store, requestCache, fetch, listing, nfetches>>
formVars == <<storedItem, itemForm, enteredKg>>
catalogueVars == <<catalogue, screenItems, editedItem, editedName, deleteRequests>>
extraVars == <<catalogueVars, lineForms, api, payEdit, partyBalance>>
nonLedgerVars == <<stockVars, queryVars, fetchVars, formVars, extraVars>>
nonStockVars == <<ledgerVars, queryVars, fetchVars, formVars, extraVars>>
vars == <<transactions, breakdown, reference, reordered, openingStock,
          bardanaKg, processedInvoices, lineItems, call, prev, ncalls,
          nfailures, answer, store, requestCache, fetch, listing, nfetches,
          storedItem, itemForm, enteredKg, catalogue, screenItems, editedItem,
          editedName, deleteRequests, lineForms, api, payEdit, partyBalance>>

None == "none"

(***************************************************************************)
(* LEDGER                                                                  *)
(***************************************************************************)
TxTypes == {"invoice", "bill", "payment-in", "payment-out"}

PartyTransaction == [type : TxTypes, amount : 1..MaxAmount]

RECURSIVE SeqsUpTo(_, _)
SeqsUpTo(S, n) ==
    IF n = 0 THEN {<<>>}
    ELSE LET shorter == SeqsUpTo(S, n - 1)
         IN  shorter \cup {Append(s, x) : s \in {t \in shorter : Len(t) = n - 1}, x \in S}

\* A JavaScript number is an integer here; undefined and NaN are written as two
\* integers that no amount and no sum within the bounds can be.
Undefined == -99
NaN == -100

IsNumber(x) == x # Undefined /\ x # NaN

\* a + b and a - b of JavaScript: NaN when an operand is undefined or NaN.
Add(a, b) == IF IsNumber(a) /\ IsNumber(b) THEN a + b ELSE NaN
Sub(a, b) == IF IsNumber(a) /\ IsNumber(b) THEN a - b ELSE NaN

ZeroBreakdown ==
    [balance |-> 0, totalInvoiced |-> 0, totalBilled |-> 0,
     totalPaymentIn |-> 0, totalPaymentOut |-> 0, transactionCount |-> 0]

\* FoldStep with a bill added to the balance.
FoldStepBillAdds(acc, t) ==
    CASE t.type = "invoice" ->
            [acc EXCEPT !.balance = @ + t.amount, !.totalInvoiced = @ + t.amount]
      [] t.type = "bill" ->
            [acc EXCEPT !.balance = @ + t.amount, !.totalBilled = @ + t.amount]
      [] t.type = "payment-in" ->
            [acc EXCEPT !.totalPaymentIn = @ + t.amount, !.balance = @ - t.amount]
      [] t.type = "payment-out" ->
            [acc EXCEPT !.totalPaymentOut = @ + t.amount, !.balance = @ + t.amount]

\* FoldStep with a payment-in added while the running balance is negative.
FoldStepSignFlip(acc, t) ==
    CASE t.type = "invoice" ->
            [acc EXCEPT !.balance = @ + t.amount, !.totalInvoiced = @ + t.amount]
      [] t.type = "bill" ->
            [acc EXCEPT !.balance = @ - t.amount, !.totalBilled = @ + t.amount]
      [] t.type = "payment-in" ->
            [acc EXCEPT !.totalPaymentIn = @ + t.amount,
                        !.balance = IF acc.balance < 0 THEN @ + t.amount ELSE @ - t.amount]
      [] t.type = "payment-out" ->
            [acc EXCEPT !.totalPaymentOut = @ + t.amount, !.balance = @ + t.amount]

\* One iteration of the forEach: the switch on transaction.type.
FoldStep(acc, t) ==
    CASE t.type = "invoice" ->
            [acc EXCEPT !.balance = Add(@, t.amount), !.totalInvoiced = Add(@, t.amount)]
      [] t.type = "bill" ->
            [acc EXCEPT !.balance = Sub(@, t.amount), !.totalBilled = Add(@, t.amount)]
      [] t.type = "payment-in" ->
            [acc EXCEPT !.totalPaymentIn = Add(@, t.amount), !.balance = Sub(@, t.amount)]
      [] t.type = "payment-out" ->
            [acc EXCEPT !.totalPaymentOut = Add(@, t.amount), !.balance = Add(@, t.amount)]

RECURSIVE FoldFrom(_, _, _)
FoldFrom(acc, txs, i) ==
    IF i > Len(txs) THEN acc ELSE FoldFrom(FoldStep(acc, txs[i]), txs, i + 1)

\* The fold of calculatePartyBalanceFromTransactions over the fetched list:
\* the five accumulators start at 0, transactionCount is transactions.length.
computeBalance(txs) ==
    [FoldFrom(ZeroBreakdown, txs, 1) EXCEPT !.transactionCount = Len(txs)]

\* calculatePartyBalanceFromTransactions applied to the current list.
Calculate ==
    /\ breakdown' = <<computeBalance(transactions)>>
    /\ reference' = IF reference = <<>> THEN breakdown' ELSE reference
    /\ UNCHANGED <<transactions, reordered>>
    /\ UNCHANGED nonLedgerVars

\* The same transactions reach the fold in another order: two of them swap.
Reorder ==
    /\ \E i, j \in 1..Len(transactions) :
          /\ i < j
          /\ transactions[i] # transactions[j]
          /\ transactions' = [transactions EXCEPT ![i] = transactions[j],
                                                  ![j] = transactions[i]]
    /\ reordered' = (reference # <<>>)
    /\ breakdown' = <<>>
    /\ UNCHANGED reference
    /\ UNCHANGED nonLedgerVars

(***************************************************************************)
(* INVENTORY                                                               *)
(***************************************************************************)
BagKg == 30     \* 1 bag = 30 kg

ProductNames == {"Rice", "Dal"}         \* productName of the items in the store
ItemNames == {"Rice", "Dal", "rice"}    \* itemName a line item can carry
Quantities == {0, 40}                   \* kg on one line
InvoiceIds == {"INV-1", "INV-2"}
Slots == {1, 2}

SaleItem == [itemName : ItemNames, quantity : Quantities]
Documents == SeqsUpTo(SaleItem, MaxLines)

\* String.toLowerCase on the names of the model.  The store's search filter
\* ignores case; the caller then wants an exact name.
Lower(name) ==
    CASE name = "Rice" -> "rice"
      [] name = "Dal" -> "dal"
      [] name \in {"Asha", "ASHA"} -> "asha"
      [] name = "Ravi" -> "ravi"
      [] OTHER -> name

\* GET /api/items?search=...: the items whose name matches the search text.
getItems(search) == {n \in ProductNames : Lower(n) = Lower(search)}

\* items.find(i => i.productName === itemName); None when there is no such item.
findItem(items, itemName) ==
    IF itemName \in items THEN itemName ELSE None

\* The Map built by soldItems.forEach: one entry per itemName, in order of first
\* appearance, carrying (get(itemName) || 0) + quantity.
RECURSIVE consolidateFrom(_, _, _)
consolidateFrom(map, items, i) ==
    IF i > Len(items) THEN map
    ELSE LET it == items[i]
             at == {k \in 1..Len(map) : map[k].itemName = it.itemName}
         IN  IF at = {}
             THEN consolidateFrom(
                      Append(map, [itemName |-> it.itemName, quantity |-> 0 + it.quantity]),
                      items, i + 1)
             ELSE consolidateFrom(
                      [k \in 1..Len(map) |->
                          IF k \in at THEN [map[k] EXCEPT !.quantity = @ + it.quantity]
                          ELSE map[k]],
                      items, i + 1)

\* consolidate keeping one entry per line.
consolidateKeepsLines(items) == items

consolidate(items) == consolidateFrom(<<>>, items, 1)

RECURSIVE totalFrom(_, _)
totalFrom(items, i) ==
    IF i > Len(items) THEN 0 ELSE items[i].quantity + totalFrom(items, i + 1)

\* The quantity of the first line alone.
totalQuantityFirstLine(items) == IF Len(items) = 0 THEN 0 ELSE items[1].quantity

\* totalBardanaReduction / Addition / Restoration: every line's quantity.
totalQuantity(items) == totalFrom(items, 1)

\* Math.round(x) for x = num / den, den > 0: the nearest integer, halves up.
RoundDiv(num, den) == (2 * num + den) \div (2 * den)

Max(a, b) == IF a >= b THEN a ELSE b

\* saleNewStock without Math.max(0, ...).
saleNewStockNoFloor(stock, quantity) ==
    RoundDiv(stock * BagKg - 100 * quantity, BagKg)

\* Math.max(0, Math.round((item.openingStock - quantity / 30) * 100) / 100)
saleNewStock(stock, quantity) ==
    Max(0, RoundDiv(stock * BagKg - 100 * quantity, BagKg))

\* purchaseNewStock with the bags taken off, as a sale does.
purchaseNewStockSubtracts(stock, quantity) ==
    RoundDiv(stock * BagKg - 100 * quantity, BagKg)

\* Math.round((item.openingStock + quantity / 30) * 100) / 100
purchaseNewStock(stock, quantity) ==
    RoundDiv(stock * BagKg + 100 * quantity, BagKg)

\* updateStockOnPurchase and revertStockOnSale compute the same new stock.
revertNewStock(stock, quantity) ==
    RoundDiv(stock * BagKg + 100 * quantity, BagKg)

newStockFor(op, stock, quantity) ==
    CASE op = "sale" -> saleNewStock(stock, quantity)
      [] op = "purchase" -> purchaseNewStock(stock, quantity)
      [] op = "revert" -> revertNewStock(stock, quantity)

\* PUT /api/items/bardana/stock {operation, quantity} in the store.
bardanaAfter(kg, operation, quantity) ==
    IF operation = "subtract" THEN kg - quantity ELSE kg + quantity

bardanaOperation(op) == IF op = "sale" THEN "subtract" ELSE "add"

(***************************************************************************)
(* A StockManager call.  It runs from one await to the next in one step;   *)
(* pc names the request it is waiting for.                                 *)
(***************************************************************************)
NoSnapshot == [stock |-> [n \in ProductNames |-> 0], bardana |-> 0, processed |-> {}]

IdleCall ==
    [op |-> None, soldItems |-> <<>>, missing |-> FALSE, invoiceId |-> None,
     pc |-> "idle", pending |-> <<>>, newStock |-> 0, log |-> <<>>,
     outcome |-> None, duplicate |-> FALSE, marked |-> FALSE, before |-> NoSnapshot]

Snapshot == [stock |-> openingStock, bardana |-> bardanaKg, processed |-> processedInvoices]

\* A request as the call sent it.  An updateItem also records what its new
\* stock was computed from: the stock read and the consolidated quantity.
Request(req, name, value, read, quantity) ==
    [req |-> req, name |-> name, value |-> value, read |-> read,
     quantity |-> quantity, status |-> "sent"]

\* The answer to the request the call waits for: the last one it sent.
Answered(log, status) == [log EXCEPT ![Len(log)].status = status]

Returned(cl) == [cl EXCEPT !.pc = "done", !.outcome = "returned"]
Threw(cl) == [cl EXCEPT !.pc = "done", !.outcome = "threw"]

\* Top of the for..of body: await ItemsApiService.getItems({search: itemName}).
IssueLookup(cl) ==
    [cl EXCEPT !.pc = "lookup",
               !.log = Append(@, Request("getItems", Head(cl.pending).itemName, 0, 0, 0))]

\* AfterLoop adding the id only when an item's stock was updated.
AfterLoopMarksIfUpdated(cl) ==
    [Returned(cl) EXCEPT !.marked =
        /\ cl.op = "sale"
        /\ cl.invoiceId # None
        /\ \E k \in DOMAIN cl.log : cl.log[k].req = "updateItem" /\ cl.log[k].status = "ok"]

\* After the loop: if (invoiceId) this.processedInvoices.add(invoiceId), which
\* only updateStockOnSale has, and the call returns.
AfterLoop(cl) ==
    [Returned(cl) EXCEPT !.marked = (cl.op = "sale" /\ cl.invoiceId # None)]

\* The for..of loop over the consolidated map, from its next entry on.
Loop(cl) == IF cl.pending = <<>> THEN AfterLoop(cl) ELSE IssueLookup(cl)

\* AfterItemSkipped leaving the loop instead of going on.
AfterItemSkippedStops(cl) == AfterLoop([cl EXCEPT !.pending = <<>>])

\* The else branch (logWarn) and the inner catch (logError): on to the next entry.
AfterItemSkipped(cl) == Loop([cl EXCEPT !.pending = Tail(@)])

\* The update resolved: on to the next entry.
AfterItemUpdated(cl) == Loop([cl EXCEPT !.pending = Tail(@)])

\* AfterBardanaFailure with the error caught and the loop entered.
AfterBardanaFailureSwallowed(cl) == Loop(cl)

\* AfterBardanaFailure with the id added before the rethrow.
AfterBardanaFailureMarks(cl) ==
    [Threw(cl) EXCEPT !.marked = (cl.op = "sale" /\ cl.invoiceId # None)]

\* await updateBardanaStock rejects: the outer catch logs and rethrows.
AfterBardanaFailure(cl) == Threw(cl)

\* AlreadyProcessed without the lookup in the set.
NeverProcessed(invoiceId) == FALSE

\* AlreadyProcessed also counting the ids of the sales in flight.
AlreadyProcessedOrInFlight(invoiceId) ==
    /\ invoiceId # None
    /\ \/ invoiceId \in processedInvoices
       \/ \E c \in Slots : /\ call[c].op = "sale"
                           /\ call[c].pc \notin {"idle", "done"}
                           /\ call[c].invoiceId = invoiceId

\* invoiceId && this.processedInvoices.has(invoiceId)
AlreadyProcessed(invoiceId) == invoiceId # None /\ invoiceId \in processedInvoices

\* Marked with a revert emptying the set.
MarkedRevertForgets(cl) ==
    IF cl.op = "revert" THEN {}
    ELSE IF cl.marked THEN processedInvoices \cup {cl.invoiceId} ELSE processedInvoices

\* The processed set once the call has taken its step.
Marked(cl) ==
    IF cl.marked THEN processedInvoices \cup {cl.invoiceId} ELSE processedInvoices

\* The code from the Bardana update on: the update is awaited when the total
\* is positive, else the loop starts at once.
FromBardana(cl) ==
    LET total == totalQuantity(cl.soldItems)
    IN  IF total > 0
        THEN [cl EXCEPT !.pc = "bardana",
                        !.log = Append(@, Request(bardanaOperation(cl.op), "Bardana", total, 0, 0))]
        ELSE Loop(cl)

NewCall(op, soldItems, invoiceId) ==
    [IdleCall EXCEPT !.op = op, !.soldItems = soldItems, !.invoiceId = invoiceId,
                     !.before = Snapshot]

\* saleStart going on to the duplicate check with an empty list.
saleStartNoValidation(soldItems, invoiceId) ==
    LET cl == NewCall("sale", soldItems, invoiceId)
    IN  IF AlreadyProcessed(invoiceId) THEN Returned([cl EXCEPT !.duplicate = TRUE])
        ELSE FromBardana([cl EXCEPT !.pending = consolidate(soldItems)])

\* updateStockOnSale up to its first await.
saleStart(soldItems, invoiceId) ==
    LET cl == NewCall("sale", soldItems, invoiceId)
    IN  IF Len(soldItems) = 0 THEN Returned(cl)
        ELSE IF AlreadyProcessed(invoiceId) THEN Returned([cl EXCEPT !.duplicate = TRUE])
        ELSE FromBardana([cl EXCEPT !.pending = consolidate(soldItems)])

\* updateStockOnPurchase up to its first await.
purchaseStart(purchasedItems) ==
    LET cl == NewCall("purchase", purchasedItems, None)
    IN  IF Len(purchasedItems) = 0 THEN Returned(cl)
        ELSE FromBardana([cl EXCEPT !.pending = consolidate(purchasedItems)])

\* revertStockOnSale up to its first await: no validation, no duplicate check.
revertStart(soldItems) ==
    FromBardana([NewCall("revert", soldItems, None) EXCEPT !.pending = consolidate(soldItems)])

\* The calls made without a list (soldItems undefined).  !soldItems makes the
\* sale and the purchase return; the revert has no such test and its
\* soldItems.forEach throws a TypeError, which the outer catch rethrows.
saleWithoutList(invoiceId) ==
    Returned([NewCall("sale", <<>>, invoiceId) EXCEPT !.missing = TRUE])

purchaseWithoutList ==
    Returned([NewCall("purchase", <<>>, None) EXCEPT !.missing = TRUE])

revertWithoutList ==
    Threw([NewCall("revert", <<>>, None) EXCEPT !.missing = TRUE])

CanStart(c) ==
    /\ call[c].pc \in {"idle", "done"}
    /\ ncalls < MaxCalls

Start(c, cl) ==
    /\ call' = [call EXCEPT ![c] = cl]
    /\ prev' = IF call[c].pc = "done" THEN call[c] ELSE prev
    /\ ncalls' = ncalls + 1
    /\ processedInvoices' = Marked(cl)
    /\ UNCHANGED <<openingStock, bardanaKg, lineItems, nfailures>>
    /\ UNCHANGED nonStockVars

updateStockOnSale(c) ==
    /\ CanStart(c)
    /\ \E invoiceId \in InvoiceIds \cup {None} :
          \/ \E soldItems \in {lineItems, <<>>} : Start(c, saleStart(soldItems, invoiceId))
          \/ Start(c, saleWithoutList(invoiceId))

updateStockOnPurchase(c) ==
    /\ CanStart(c)
    /\ \/ \E purchasedItems \in {lineItems, <<>>} : Start(c, purchaseStart(purchasedItems))
       \/ Start(c, purchaseWithoutList)

revertStockOnSale(c) ==
    /\ CanStart(c)
    /\ \/ \E soldItems \in {lineItems, <<>>} : Start(c, revertStart(soldItems))
       \/ Start(c, revertWithoutList)

Fails ==
    /\ nfailures < MaxFailures
    /\ nfailures' = nfailures + 1

\* PUT /api/items/bardana/stock is answered.
BardanaResponse(c) ==
    /\ call[c].pc = "bardana"
    /\ LET cl == call[c]
           rq == cl.log[Len(cl.log)]
       IN  \/ /\ bardanaKg' = bardanaAfter(bardanaKg, rq.req, rq.value)
              /\ call' = [call EXCEPT ![c] = Loop([cl EXCEPT !.log = Answered(@, "ok")])]
              /\ UNCHANGED nfailures
           \/ /\ Fails
              /\ call' = [call EXCEPT ![c] =
                            AfterBardanaFailure([cl EXCEPT !.log = Answered(@, "failed")])]
              /\ UNCHANGED bardanaKg
    /\ processedInvoices' = Marked(call'[c])
    /\ UNCHANGED <<openingStock, lineItems, prev, ncalls>>
    /\ UNCHANGED nonStockVars

\* GET /api/items?search=itemName is answered; the exact name is looked for
\* and, when found, the new stock is computed and its PUT sent.
LookupResponse(c) ==
    /\ call[c].pc = "lookup"
    /\ LET cl == call[c]
           entry == Head(cl.pending)
           item == findItem(getItems(entry.itemName), entry.itemName)
       IN  \/ /\ item # None
              /\ LET newStock == newStockFor(cl.op, openingStock[item], entry.quantity)
                 IN  call' = [call EXCEPT ![c] =
                                [cl EXCEPT !.pc = "update",
                                           !.newStock = newStock,
                                           !.log = Append(Answered(@, "ok"),
                                                          Request("updateItem", item, newStock,
                                                                  openingStock[item],
                                                                  entry.quantity))]]
              /\ UNCHANGED nfailures
           \/ /\ item = None
              /\ call' = [call EXCEPT ![c] =
                            AfterItemSkipped([cl EXCEPT !.log = Answered(@, "notfound")])]
              /\ UNCHANGED nfailures
           \/ /\ Fails
              /\ call' = [call EXCEPT ![c] =
                            AfterItemSkipped([cl EXCEPT !.log = Answered(@, "failed")])]
    /\ processedInvoices' = Marked(call'[c])
    /\ UNCHANGED <<openingStock, bardanaKg, lineItems, prev, ncalls>>
    /\ UNCHANGED nonStockVars

\* UpdateResponse with the store applying the change of the call to the stock
\* it holds, not the stock the call wrote.
UpdateResponseAppliesDelta(c) ==
    /\ call[c].pc = "update"
    /\ LET cl == call[c]
           rq == cl.log[Len(cl.log)]
       IN  \/ /\ openingStock' = [openingStock EXCEPT
                                     ![rq.name] = newStockFor(cl.op, @, rq.quantity)]
              /\ call' = [call EXCEPT ![c] =
                            AfterItemUpdated([cl EXCEPT !.log = Answered(@, "ok")])]
              /\ UNCHANGED nfailures
           \/ /\ Fails
              /\ call' = [call EXCEPT ![c] =
                            AfterItemSkipped([cl EXCEPT !.log = Answered(@, "failed")])]
              /\ UNCHANGED openingStock
    /\ processedInvoices' = Marked(call'[c])
    /\ UNCHANGED <<bardanaKg, lineItems, prev, ncalls>>
    /\ UNCHANGED nonStockVars

\* PUT /api/items/:id {openingStock} is answered.
UpdateResponse(c) ==
    /\ call[c].pc = "update"
    /\ LET cl == call[c]
           rq == cl.log[Len(cl.log)]
       IN  \/ /\ openingStock' = [openingStock EXCEPT ![rq.name] = rq.value]
              /\ call' = [call EXCEPT ![c] =
                            AfterItemUpdated([cl EXCEPT !.log = Answered(@, "ok")])]
              /\ UNCHANGED nfailures
           \/ /\ Fails
              /\ call' = [call EXCEPT ![c] =
                            AfterItemSkipped([cl EXCEPT !.log = Answered(@, "failed")])]
              /\ UNCHANGED openingStock
    /\ processedInvoices' = Marked(call'[c])
    /\ UNCHANGED <<bardanaKg, lineItems, prev, ncalls>>
    /\ UNCHANGED nonStockVars

\* StockManager.clearProcessedInvoices
clearProcessedInvoices ==
    /\ processedInvoices' = {}
    /\ UNCHANGED <<openingStock, bardanaKg, lineItems, call, prev, ncalls, nfailures>>
    /\ UNCHANGED nonStockVars

\* removeProcessedInvoice emptying the set.
removeProcessedInvoiceClears(invoiceId) ==
    /\ processedInvoices' = {}
    /\ UNCHANGED <<openingStock, bardanaKg, lineItems, call, prev, ncalls, nfailures>>
    /\ UNCHANGED nonStockVars

\* StockManager.removeProcessedInvoice
removeProcessedInvoice(invoiceId) ==
    /\ processedInvoices' = processedInvoices \ {invoiceId}
    /\ UNCHANGED <<openingStock, bardanaKg, lineItems, call, prev, ncalls, nfailures>>
    /\ UNCHANGED nonStockVars

\* StockManager.isInvoiceProcessed
isInvoiceProcessed(invoiceId) == invoiceId \in processedInvoices

(***************************************************************************)
(* Two StockManager calls in flight at once.  Every method is async: a     *)
(* second call can start while the first waits for an answer.  The GETs of *)
(* getItems go through apiRequest, which shares one fetch among the calls   *)
(* that wait for the same URL; the PUTs are never shared.                  *)
(***************************************************************************)
\* The call goes on from its await of getItems, answered with `status`.
Looked(cl, status) ==
    LET entry == Head(cl.pending)
        found == findItem(getItems(entry.itemName), entry.itemName)
    IN  IF status = "failed"
        THEN AfterItemSkipped([cl EXCEPT !.log = Answered(@, "failed")])
        ELSE IF found = None
        THEN AfterItemSkipped([cl EXCEPT !.log = Answered(@, "notfound")])
        ELSE LET newStock == newStockFor(cl.op, openingStock[found], entry.quantity)
             IN  [cl EXCEPT !.pc = "update",
                            !.newStock = newStock,
                            !.log = Append(Answered(@, "ok"),
                                           Request("updateItem", found, newStock,
                                                   openingStock[found], entry.quantity))]

\* The calls that wait for GET /api/items?search=itemName.
WaitingFor(itemName) ==
    {c \in Slots : call[c].pc = "lookup" /\ Head(call[c].pending).itemName = itemName}

\* The processed set once the calls of `resumed` have taken their steps.
MarkedBy(calls, resumed) ==
    processedInvoices \cup {calls[c].invoiceId : c \in {d \in resumed : calls[d].marked}}

\* The one fetch of GET /api/items?search=itemName settles: every call that
\* waits for it goes on with the same answer.
getItemsResponse(itemName) ==
    /\ WaitingFor(itemName) # {}
    /\ \/ /\ call' = [c \in Slots |->
                         IF c \in WaitingFor(itemName) THEN Looked(call[c], "ok") ELSE call[c]]
          /\ UNCHANGED nfailures
       \/ /\ Fails
          /\ call' = [c \in Slots |->
                         IF c \in WaitingFor(itemName) THEN Looked(call[c], "failed")
                         ELSE call[c]]
    /\ processedInvoices' = MarkedBy(call', WaitingFor(itemName))
    /\ UNCHANGED <<openingStock, bardanaKg, lineItems, prev, ncalls>>
    /\ UNCHANGED nonStockVars

(***************************************************************************)
(* The query helpers of StockManager.  Each reads once and returns; the    *)
(* ones that ask the store catch a rejected request and return 0 or [].    *)
(***************************************************************************)
\* Item.lowStockAlert of the items in the store, in 1/100 bag.
lowStockAlert == [n \in ProductNames |-> 100]

NoAnswer ==
    [query |-> None, name |-> None, num |-> 0, flag |-> FALSE, ids |-> <<>>,
     items |-> {}]

\* The value getItemStock returns when the store answers: 0 for a name the
\* store does not have exactly, else Math.round(item.openingStock * 30).
getItemStock(itemName) ==
    LET item == findItem(getItems(itemName), itemName)
    IN  IF item = None THEN 0 ELSE RoundDiv(openingStock[item] * BagKg, 100)

\* The value getBardanaStock returns when the store answers.
getBardanaStock == bardanaKg

\* items.filter(item => item.openingStock <= item.lowStockAlert)
getLowStockItems == {n \in ProductNames : openingStock[n] <= lowStockAlert[n]}

\* this.processedInvoices.size
getProcessedInvoicesCount == Cardinality(processedInvoices)

\* Array.from(set): every member once, in some order.
RECURSIVE ArrayFrom(_)
ArrayFrom(set) ==
    IF set = {} THEN <<>>
    ELSE LET x == CHOOSE y \in set : TRUE
         IN  <<x>> \o ArrayFrom(set \ {x})

\* Array.from(this.processedInvoices)
getProcessedInvoiceIds == ArrayFrom(processedInvoices)

\* A helper returns: it changes nothing but what the caller now holds.
Returns(a) ==
    /\ answer' = a
    /\ UNCHANGED <<openingStock, bardanaKg, processedInvoices, lineItems, call,
                   prev, ncalls>>
    /\ UNCHANGED <<ledgerVars, fetchVars, formVars, extraVars>>

AskItemStock ==
    \E itemName \in ItemNames :
        \/ /\ Returns([NoAnswer EXCEPT !.query = "getItemStock", !.name = itemName,
                                        !.num = getItemStock(itemName)])
           /\ UNCHANGED nfailures
        \/ /\ Fails
           /\ Returns([NoAnswer EXCEPT !.query = "getItemStock", !.name = itemName])

\* currentStock >= requiredQuantity, on what getItemStock returned.
AskSufficientStock ==
    \E itemName \in ItemNames, requiredQuantity \in Quantities :
        \/ /\ Returns([NoAnswer EXCEPT !.query = "hasSufficientStock", !.name = itemName,
                                        !.num = requiredQuantity,
                                        !.flag = (getItemStock(itemName) >= requiredQuantity)])
           /\ UNCHANGED nfailures
        \/ /\ Fails
           /\ Returns([NoAnswer EXCEPT !.query = "hasSufficientStock", !.name = itemName,
                                        !.num = requiredQuantity,
                                        !.flag = (0 >= requiredQuantity)])

AskBardanaStock ==
    \/ /\ Returns([NoAnswer EXCEPT !.query = "getBardanaStock", !.num = getBardanaStock])
       /\ UNCHANGED nfailures
    \/ /\ Fails
       /\ Returns([NoAnswer EXCEPT !.query = "getBardanaStock"])

AskSufficientBardanaStock ==
    \E requiredQuantity \in Quantities :
        \/ /\ Returns([NoAnswer EXCEPT !.query = "hasSufficientBardanaStock",
                                        !.num = requiredQuantity,
                                        !.flag = (getBardanaStock >= requiredQuantity)])
           /\ UNCHANGED nfailures
        \/ /\ Fails
           /\ Returns([NoAnswer EXCEPT !.query = "hasSufficientBardanaStock",
                                        !.num = requiredQuantity,
                                        !.flag = (0 >= requiredQuantity)])

AskLowStockItems ==
    \/ /\ Returns([NoAnswer EXCEPT !.query = "getLowStockItems", !.items = getLowStockItems])
       /\ UNCHANGED nfailures
    \/ /\ Fails
       /\ Returns([NoAnswer EXCEPT !.query = "getLowStockItems"])

AskInvoiceProcessed ==
    \E invoiceId \in InvoiceIds :
        /\ Returns([NoAnswer EXCEPT !.query = "isInvoiceProcessed", !.name = invoiceId,
                                     !.flag = isInvoiceProcessed(invoiceId)])
        /\ UNCHANGED nfailures

AskProcessedInvoicesCount ==
    /\ Returns([NoAnswer EXCEPT !.query = "getProcessedInvoicesCount",
                                 !.num = getProcessedInvoicesCount])
    /\ UNCHANGED nfailures

AskProcessedInvoiceIds ==
    /\ Returns([NoAnswer EXCEPT !.query = "getProcessedInvoiceIds",
                                 !.ids = getProcessedInvoiceIds])
    /\ UNCHANGED nfailures

(***************************************************************************)
(* THE LEDGER FETCHED FROM THE BACKEND                                     *)
(*                                                                         *)
(* getPartyTransactions reads the sales, the purchases and the payments,   *)
(* one GET after the other.  apiRequest hands callers of a GET that is in  *)
(* flight the promise of that request, so its answer resumes all of them,  *)
(* one after the other, before anything else happens.                      *)
(***************************************************************************)
PartyKeys ==
    {[name |-> "Asha", phoneNumber |-> "111"], [name |-> "ASHA", phoneNumber |-> "111"],
     [name |-> "Asha", phoneNumber |-> "222"], [name |-> "Ravi", phoneNumber |-> "111"]}

\* The parties GET /api/parties can list.
ListedParties ==
    {[name |-> "Asha", phoneNumber |-> "111"], [name |-> "Ravi", phoneNumber |-> "111"]}

\* totalAmount of a sale or purchase, amount of a payment: a number or absent.
RowAmounts == {MaxAmount, Undefined}

\* What the backend holds of one kind.  A row keeps the party, the amount and
\* the date; rows of one kind carry one date, sales the oldest.
RowsOf(types, date) ==
    {[partyName |-> k.name, phoneNumber |-> k.phoneNumber, amount |-> a,
      type |-> t, date |-> date] : k \in PartyKeys, a \in RowAmounts, t \in types}

Endpoints == {"sales", "purchases", "payments"}

\* The GET getPartyTransactions awaits after endpoint e; None after the last.
NextEndpoint(e) ==
    CASE e = "sales" -> "purchases"
      [] e = "purchases" -> "payments"
      [] OTHER -> None

\* rows.forEach: a row of the party (name compared in lower case, phone number
\* exactly) is pushed as a PartyTransaction of the row's kind.
RECURSIVE PushMatching(_, _, _, _, _)
PushMatching(list, rows, i, partyName, phoneNumber) ==
    IF i > Len(rows) THEN list
    ELSE LET row == rows[i]
         IN  IF Lower(row.partyName) = Lower(partyName) /\ row.phoneNumber = phoneNumber
             THEN PushMatching(
                      Append(list, [type |-> row.type, amount |-> row.amount,
                                    date |-> row.date]),
                      rows, i + 1, partyName, phoneNumber)
             ELSE PushMatching(list, rows, i + 1, partyName, phoneNumber)

\* t put into a list sorted newest first, behind the entries as new as it is.
RECURSIVE InsertByDate(_, _)
InsertByDate(sorted, t) ==
    IF sorted = <<>> THEN <<t>>
    ELSE IF Head(sorted).date >= t.date
         THEN <<Head(sorted)>> \o InsertByDate(Tail(sorted), t)
         ELSE <<t>> \o sorted

RECURSIVE SortFrom(_, _, _)
SortFrom(sorted, list, i) ==
    IF i > Len(list) THEN sorted
    ELSE SortFrom(InsertByDate(sorted, list[i]), list, i + 1)

\* transactions.sort((a, b) => new Date(b.date) - new Date(a.date)): stable.
SortNewestFirst(list) == SortFrom(<<>>, list, 1)

\* Caller 0 is a screen; callers 1.. are the map callbacks of
\* getPartiesWithBalances, one per party listed.
Callers == 0..MaxParties

IdleFetch ==
    [partyName |-> None, phoneNumber |-> None, pc |-> "idle", transactions |-> <<>>,
     failed |-> None, folded |-> <<>>, result |-> <<>>, outcome |-> None]

\* calculatePartyBalanceFromTransactions up to the first await of
\* getPartyTransactions: SaleApiService.getSales().
StartedFetch(partyName, phoneNumber) ==
    [IdleFetch EXCEPT !.partyName = partyName, !.phoneNumber = phoneNumber,
                      !.pc = "sales"]

\* The fold over the list getPartyTransactions returned, and the return.
Folded(f, list) ==
    [f EXCEPT !.pc = "done", !.folded = list, !.result = <<computeBalance(list)>>,
              !.outcome = "returned"]

\* RejectedFetch with the rows pushed before the failure kept.
RejectedFetchKeepsRows(f, e) ==
    Folded([f EXCEPT !.failed = e], SortNewestFirst(f.transactions))

\* The GET of endpoint e rejects: the catch of getPartyTransactions returns []
\* and the fold runs over it.
RejectedFetch(f, e) == Folded([f EXCEPT !.failed = e], <<>>)

\* ResumedFetch pushing every row, whoever its party is.
ResumedFetchNoFilter(f, e) ==
    LET txs == f.transactions \o
                   [i \in 1..Len(store[e]) |->
                       [type |-> store[e][i].type, amount |-> store[e][i].amount,
                        date |-> store[e][i].date]]
    IN  IF NextEndpoint(e) = None
        THEN Folded([f EXCEPT !.transactions = txs], SortNewestFirst(txs))
        ELSE [f EXCEPT !.transactions = txs, !.pc = NextEndpoint(e)]

\* The GET of endpoint e resolves: its rows are filtered and pushed, and the
\* next GET is awaited or, after the payments, the list is sorted and folded.
ResumedFetch(f, e) ==
    LET txs == PushMatching(f.transactions, store[e], 1, f.partyName, f.phoneNumber)
    IN  IF NextEndpoint(e) = None
        THEN Folded([f EXCEPT !.transactions = txs], SortNewestFirst(txs))
        ELSE [f EXCEPT !.transactions = txs, !.pc = NextEndpoint(e)]

IdleListing == [pc |-> "idle", parties |-> <<>>, result |-> <<>>]

\* Merged giving every party the breakdown of the first callback.
MergedFirstForAll(l, f) ==
    IF l.pc = "balances" /\ \A p \in 1..Len(l.parties) : f[p].pc = "done"
    THEN [l EXCEPT !.pc = "done",
                   !.result = [p \in 1..Len(l.parties) |->
                                  [name |-> l.parties[p].name,
                                   phoneNumber |-> l.parties[p].phoneNumber,
                                   breakdown |-> f[1].result[1]]]]
    ELSE l

\* Promise.all over the map callbacks resolves once every one has returned:
\* each party with the breakdown its callback got.
Merged(l, f) ==
    IF l.pc = "balances" /\ \A p \in 1..Len(l.parties) : f[p].pc = "done"
    THEN [l EXCEPT !.pc = "done",
                   !.result = [p \in 1..Len(l.parties) |->
                                  [name |-> l.parties[p].name,
                                   phoneNumber |-> l.parties[p].phoneNumber,
                                   breakdown |-> f[p].result[1]]]]
    ELSE l

FetchFrame ==
    /\ UNCHANGED <<openingStock, bardanaKg, processedInvoices, lineItems, call,
                   prev, ncalls>>
    /\ UNCHANGED <<ledgerVars, queryVars, formVars, extraVars, store>>

\* A screen calls PartyManager.calculatePartyBalanceFromTransactions.
calculatePartyBalanceFromTransactions ==
    /\ nfetches < MaxFetches
    /\ fetch[0].pc \in {"idle", "done"}
    /\ \E k \in PartyKeys :
          fetch' = [fetch EXCEPT ![0] = StartedFetch(k.name, k.phoneNumber)]
    /\ requestCache' = requestCache \cup {"sales"}
    /\ nfetches' = nfetches + 1
    /\ UNCHANGED <<listing, nfailures>>
    /\ FetchFrame

\* A screen calls PartyManager.getPartiesWithBalances: getAllParties is awaited.
getPartiesWithBalances ==
    /\ listing.pc = "idle"
    /\ listing' = [listing EXCEPT !.pc = "parties"]
    /\ requestCache' = requestCache \cup {"parties"}
    /\ UNCHANGED <<fetch, nfetches, nfailures>>
    /\ FetchFrame

\* GET /api/parties is answered.  parties.map starts one balance computation
\* per party; a rejected request makes getAllParties return [].
PartiesResponse ==
    /\ "parties" \in requestCache
    /\ \/ /\ fetch' = [p \in Callers |->
                          IF p \in 1..Len(store.parties)
                          THEN StartedFetch(store.parties[p].name,
                                            store.parties[p].phoneNumber)
                          ELSE fetch[p]]
          /\ requestCache' = (requestCache \ {"parties"}) \cup
                                 (IF store.parties = <<>> THEN {} ELSE {"sales"})
          /\ listing' = Merged([listing EXCEPT !.pc = "balances",
                                               !.parties = store.parties], fetch')
          /\ UNCHANGED nfailures
       \/ /\ Fails
          /\ listing' = [listing EXCEPT !.pc = "done"]
          /\ requestCache' = requestCache \ {"parties"}
          /\ UNCHANGED fetch
    /\ UNCHANGED nfetches
    /\ FetchFrame

\* GET /api/sales, /api/purchases or /api/payments is answered: every caller
\* awaiting it goes on.
ReadResponse(e) ==
    /\ e \in requestCache
    /\ \/ /\ fetch' = [p \in Callers |->
                          IF fetch[p].pc = e THEN ResumedFetch(fetch[p], e) ELSE fetch[p]]
          /\ requestCache' = (requestCache \ {e}) \cup
                                 (IF NextEndpoint(e) = None THEN {} ELSE {NextEndpoint(e)})
          /\ UNCHANGED nfailures
       \/ /\ Fails
          /\ fetch' = [p \in Callers |->
                          IF fetch[p].pc = e THEN RejectedFetch(fetch[p], e) ELSE fetch[p]]
          /\ requestCache' = requestCache \ {e}
    /\ listing' = Merged(listing, fetch')
    /\ UNCHANGED nfetches
    /\ FetchFrame

(***************************************************************************)
(* THE ITEM SCREENS                                                        *)
(*                                                                         *)
(* Weights are typed in kg and sent to the backend in bags.  A weight is a *)
(* fraction num / den in lowest terms, so that dividing by 30 loses        *)
(* nothing, as long as the code does not round.  The code divides and      *)
(* multiplies doubles: the double nearest to kg / 30 times 30 is exactly   *)
(* the kg typed for 0, 100 and 900 kg, and differs from it in the last     *)
(* digit for some other weights (31 kg is shown as 31.000000000000004).    *)
(***************************************************************************)
RECURSIVE GCD(_, _)
GCD(a, b) == IF b = 0 THEN a ELSE GCD(b, a % b)

\* num / den in lowest terms; 0 is 0 / 1.
Fraction(num, den) ==
    LET g == GCD(num, den)
    IN  [num |-> num \div g, den |-> den \div g]

\* Math.round(x * 100) / 100 of a fraction x.
RoundedTo2(x) == Fraction(RoundDiv(100 * x.num, x.den), 100)

\* KgToBags rounding the bags to two decimals.
KgToBagsRounded(kg) == RoundedTo2(Fraction(kg.num, kg.den * BagKg))

\* openingStockKg / 30
KgToBags(kg) == Fraction(kg.num, kg.den * BagKg)

\* foundItem.openingStock * 30
BagsToKg(bags) == Fraction(bags.num * BagKg, bags.den)

\* The weights a user types, in kg; a negative one is refused.
EnteredKg == {-1, 0, 31, 100, 900}

\* parseFloat of the text typed.
Typed(kg) == [num |-> kg, den |-> 1]

ItemFormFor(stockKg, alertKg) == [openingStock |-> stockKg, lowStockAlert |-> alertKg]

\* isNaN(x) || x < 0 for the two weights of the form.
ValidWeights(form) == form.openingStock.num >= 0 /\ form.lowStockAlert.num >= 0

\* The body sent by createItem and updateItem: both weights in bags.
ItemData(form) ==
    [openingStock |-> KgToBags(form.openingStock),
     lowStockAlert |-> KgToBags(form.lowStockAlert)]

FormsFrame ==
    /\ UNCHANGED <<openingStock, bardanaKg, processedInvoices, lineItems, call,
                   prev, ncalls>>
    /\ UNCHANGED <<ledgerVars, queryVars, fetchVars, extraVars>>

\* ItemsScreen.handleCreateItem: the weights typed are validated, converted
\* and sent with POST /api/items; nothing is sent for a name that exists.
handleCreateItem ==
    /\ \E stockKg, alertKg \in EnteredKg :
          LET form == ItemFormFor(Typed(stockKg), Typed(alertKg))
          IN  IF ValidWeights(form) /\ storedItem = <<>>
              THEN \/ /\ storedItem' = <<ItemData(form)>>
                      /\ enteredKg' = <<form>>
                      /\ UNCHANGED nfailures
                   \/ /\ Fails
                      /\ UNCHANGED <<storedItem, enteredKg>>
              ELSE UNCHANGED <<storedItem, enteredKg, nfailures>>
    /\ UNCHANGED itemForm
    /\ FormsFrame

\* EditItemsScreen.loadItem: GET /api/items/:id fills the form, in kg.
loadItem ==
    /\ storedItem # <<>>
    /\ \/ /\ itemForm' = <<ItemFormFor(BagsToKg(storedItem[1].openingStock),
                                        BagsToKg(storedItem[1].lowStockAlert))>>
          /\ UNCHANGED nfailures
       \/ /\ Fails
          /\ UNCHANGED itemForm
    /\ UNCHANGED <<storedItem, enteredKg>>
    /\ FormsFrame

\* The user types a weight into the opening stock or the low stock alert.
onChangeText ==
    /\ itemForm # <<>>
    /\ \E kg \in EnteredKg :
          \/ itemForm' = <<[itemForm[1] EXCEPT !.openingStock = Typed(kg)]>>
          \/ itemForm' = <<[itemForm[1] EXCEPT !.lowStockAlert = Typed(kg)]>>
    /\ UNCHANGED <<storedItem, enteredKg, nfailures>>
    /\ FormsFrame

\* EditItemsScreen.handleSaveItem: the form is validated, converted and sent
\* with PUT /api/items/:id; router.back() leaves the screen.
handleSaveItem ==
    /\ itemForm # <<>>
    /\ IF ValidWeights(itemForm[1])
       THEN \/ /\ storedItem' = <<ItemData(itemForm[1])>>
               /\ enteredKg' = itemForm
               /\ itemForm' = <<>>
               /\ UNCHANGED nfailures
            \/ /\ Fails
               /\ UNCHANGED <<storedItem, enteredKg, itemForm>>
       ELSE UNCHANGED <<storedItem, enteredKg, itemForm, nfailures>>
    /\ FormsFrame

(***************************************************************************)
(* THE ITEM CATALOGUE                                                      *)
(*                                                                         *)
(* The items screen lists the items of the backend, creates and deletes    *)
(* them; the edit screen renames and deletes the item it has loaded.  An   *)
(* item is its id, its productName and its isUniversal flag.  The backend  *)
(* stores what it is sent.                                                 *)
(***************************************************************************)
TypedNames == {"Rice", "rice", "Dal"}    \* productName typed into a form

\* The ids the backend has given out so far; ids are never given twice.
IdsGiven == {i.id : i \in catalogue} \cup {d.id : d \in deleteRequests}

NewId == Cardinality(IdsGiven) + 1

\* POST /api/items/initialize-bardana: the universal item, made when missing.
initializeBardana(items) ==
    IF \E i \in items : i.isUniversal /\ i.productName = "Bardana" THEN items
    ELSE items \cup {[id |-> NewId, productName |-> "Bardana", isUniversal |-> TRUE]}

\* items.find(item => (item.id || item._id) === itemId)
ItemWithId(items, itemId) == {i \in items : i.id = itemId}

CatalogueFrame ==
    /\ UNCHANGED <<openingStock, bardanaKg, processedInvoices, lineItems, call,
                   prev, ncalls>>
    /\ UNCHANGED <<ledgerVars, queryVars, fetchVars, formVars, lineForms, api, payEdit,
                   partyBalance>>

\* ItemsScreen.loadItems: getItems fills the list, then initializeBardana is
\* sent; a failure of the first skips the second, a failure of the second is
\* only logged.
loadItems ==
    /\ \/ /\ screenItems' = catalogue
          /\ Cardinality(initializeBardana(catalogue)) <= MaxItems
          /\ catalogue' = initializeBardana(catalogue)
          /\ UNCHANGED nfailures
       \/ /\ Fails
          /\ screenItems' = catalogue
          /\ UNCHANGED catalogue
       \/ /\ Fails
          /\ UNCHANGED <<screenItems, catalogue>>
    /\ UNCHANGED <<editedItem, editedName, deleteRequests>>
    /\ CatalogueFrame

\* ItemsScreen.handleCreateItem: a name the list has, ignoring case, is
\* refused; else the item is sent with isUniversal false and added to the list.
handleCreateNamedItem ==
    /\ editedItem = <<>>
    /\ \E productName \in TypedNames :
          IF \E i \in screenItems : Lower(i.productName) = Lower(productName)
          THEN UNCHANGED <<catalogue, screenItems, nfailures>>
          ELSE \/ /\ Cardinality(IdsGiven) < MaxItems
                  /\ LET createdItem == [id |-> NewId, productName |-> productName,
                                         isUniversal |-> FALSE]
                     IN  /\ catalogue' = catalogue \cup {createdItem}
                         /\ screenItems' = screenItems \cup {createdItem}
                  /\ UNCHANGED nfailures
               \/ /\ Fails
                  /\ UNCHANGED <<catalogue, screenItems>>
    /\ UNCHANGED <<editedItem, editedName, deleteRequests>>
    /\ CatalogueFrame

\* What is kept of a deleteItem request: the id and the flag of its item.
Requested(i) == [id |-> i.id, isUniversal |-> i.isUniversal]

\* DELETE /api/items/:id as the backend answers it.
DeleteSent(sent) ==
    /\ deleteRequests' = deleteRequests \cup {Requested(i) : i \in sent}
    /\ catalogue' = {i \in catalogue : i.id \notin {d.id : d \in sent}}

\* ItemsScreen.handleDeleteItem, from the delete button of a card, which only
\* the items that are not universal have: a universal item is refused; else,
\* once confirmed, deleteItem is sent and the item leaves the list.
handleDeleteItem ==
    /\ editedItem = <<>>
    /\ \E shown \in {i \in screenItems : ~i.isUniversal} :
          LET itemToDelete == ItemWithId(screenItems, shown.id)
          IN  IF \E i \in itemToDelete : i.isUniversal
              THEN UNCHANGED <<catalogue, screenItems, deleteRequests, nfailures>>
              ELSE \/ /\ DeleteSent({shown})
                      /\ screenItems' = {i \in screenItems : i.id # shown.id}
                      /\ UNCHANGED nfailures
                   \/ /\ Fails
                      /\ deleteRequests' = deleteRequests \cup {Requested(shown)}
                      /\ UNCHANGED <<catalogue, screenItems>>
                   \/ UNCHANGED <<catalogue, screenItems, deleteRequests, nfailures>>
    /\ UNCHANGED <<editedItem, editedName>>
    /\ CatalogueFrame

\* EditItemsScreen opened on an item of the list; loadItem: getItemById
\* fills `item` and the form, and a failure leaves the screen.
loadNamedItem ==
    /\ editedItem = <<>>
    /\ \E shown \in screenItems :
          \/ /\ ItemWithId(catalogue, shown.id) # {}
             /\ LET foundItem == CHOOSE i \in catalogue : i.id = shown.id
                IN  /\ editedItem' = <<foundItem>>
                    /\ editedName' = foundItem.productName
             /\ UNCHANGED nfailures
          \/ /\ Fails
             /\ UNCHANGED <<editedItem, editedName>>
    /\ UNCHANGED <<catalogue, screenItems, deleteRequests>>
    /\ CatalogueFrame

\* The user types a product name into the edit form, which the form of a
\* universal item does not let them do (editable={!item.isUniversal}).
onChangeName ==
    /\ editedItem # <<>>
    /\ ~editedItem[1].isUniversal
    /\ \E productName \in TypedNames : editedName' = productName
    /\ UNCHANGED <<catalogue, screenItems, editedItem, deleteRequests, nfailures>>
    /\ CatalogueFrame

\* EditItemsScreen.handleSaveItem: the name of the form is sent with
\* updateItem, whatever the other items are called, and the screen is left.
handleSaveNamedItem ==
    /\ editedItem # <<>>
    /\ \/ /\ catalogue' = {IF i.id = editedItem[1].id
                           THEN [i EXCEPT !.productName = editedName] ELSE i :
                           i \in catalogue}
          /\ editedItem' = <<>>
          /\ editedName' = ""
          /\ UNCHANGED nfailures
       \/ /\ Fails
          /\ UNCHANGED <<catalogue, editedItem, editedName>>
    /\ UNCHANGED <<screenItems, deleteRequests>>
    /\ CatalogueFrame

\* handleDeleteEditedItem with the delete button shown for every item.
handleDeleteEditedItemAlwaysShown ==
    /\ editedItem # <<>>
    /\ \/ /\ DeleteSent({editedItem[1]})
          /\ editedItem' = <<>>
          /\ editedName' = ""
          /\ UNCHANGED nfailures
       \/ /\ Fails
          /\ deleteRequests' = deleteRequests \cup {Requested(editedItem[1])}
          /\ UNCHANGED <<catalogue, editedItem, editedName>>
       \/ UNCHANGED <<catalogue, editedItem, editedName, deleteRequests, nfailures>>
    /\ UNCHANGED screenItems
    /\ CatalogueFrame

\* EditItemsScreen.handleDeleteItem, from the delete button in the header,
\* which is rendered when the item is not universal: once confirmed,
\* deleteItem is sent and the screen is left.
handleDeleteEditedItem ==
    /\ editedItem # <<>>
    /\ ~editedItem[1].isUniversal
    /\ \/ /\ DeleteSent({editedItem[1]})
          /\ editedItem' = <<>>
          /\ editedName' = ""
          /\ UNCHANGED nfailures
       \/ /\ Fails
          /\ deleteRequests' = deleteRequests \cup {Requested(editedItem[1])}
          /\ UNCHANGED <<catalogue, editedItem, editedName>>
       \/ UNCHANGED <<catalogue, editedItem, editedName, deleteRequests, nfailures>>
    /\ UNCHANGED screenItems
    /\ CatalogueFrame

\* router.back() from the edit screen.
leaveEditScreen ==
    /\ editedItem # <<>>
    /\ editedItem' = <<>>
    /\ editedName' = ""
    /\ UNCHANGED <<catalogue, screenItems, deleteRequests, nfailures>>
    /\ CatalogueFrame

(***************************************************************************)
(* THE LINE ITEMS OF A DOCUMENT                                            *)
(*                                                                         *)
(* The sale and purchase forms and the two edit screens each hold a list of *)
(* line items {id, quantity, rate, total}; the add-items screen over them   *)
(* holds the selected items {id, weightKg, pricePerKg, totalPrice}.  The   *)
(* screens do not share state, so one form is followed at a time.          *)
(***************************************************************************)
EmptyText == -98    \* the empty string of a TextInput

\* What a user types into a numeric field: nothing, text that is no number,
\* or a number.
TypedText == {EmptyText, NaN, 0, 2, 40}

\* parseFloat(text): NaN for the empty string too.
parseFloat(text) == IF text = EmptyText THEN NaN ELSE text

\* parseFloat(text) || 0, parseInt(text) || 0
OrZero(x) == IF x = NaN \/ x = 0 THEN 0 ELSE x

\* a * b of two JavaScript numbers.
Mul(a, b) == IF a = NaN \/ b = NaN THEN NaN ELSE a * b

\* The items the add-items screen can list: price per kg and stock in bags.
ListedItems ==
    {[id |-> 1, salePrice |-> 3, purchasePrice |-> 2, openingStock |-> 1],
     [id |-> 2, salePrice |-> 2, purchasePrice |-> 2, openingStock |-> 0]}

NoItemForm == [quantity |-> EmptyText, rate |-> EmptyText]

NoLineForms ==
    [screen |-> None, items |-> <<>>, picking |-> FALSE, itemMode |-> None,
     selectedItems |-> <<>>, editingItem |-> 0, itemForm |-> NoItemForm]

LineFrame ==
    /\ UNCHANGED <<openingStock, bardanaKg, processedInvoices, lineItems, call,
                   prev, ncalls, nfailures>>
    /\ UNCHANGED <<ledgerVars, queryVars, fetchVars, formVars, catalogueVars, api, payEdit,
                   partyBalance>>

\* The sale form or the purchase form is opened, empty.
openForm ==
    /\ lineForms.screen = None
    /\ \E screen \in {"sales", "purchase"} :
          lineForms' = [lineForms EXCEPT !.screen = screen]
    /\ LineFrame

\* router.push to add-items, in the mode of the form it is opened from.
openAddItems ==
    /\ lineForms.screen # None
    /\ ~lineForms.picking
    /\ lineForms.editingItem = 0
    /\ lineForms' = [lineForms EXCEPT
                        !.picking = TRUE,
                        !.itemMode = IF lineForms.screen \in {"sales", "edit-invoice"}
                                     THEN "sales" ELSE "purchase",
                        !.selectedItems = <<>>]
    /\ LineFrame

\* AddItemsScreen.selectItem
selectItem ==
    /\ lineForms.picking
    /\ \E item \in ListedItems :
          LET selected == lineForms.selectedItems
              isAlreadySelected == \E k \in DOMAIN selected : selected[k].id = item.id
              pricePerKg == IF lineForms.itemMode = "sales" THEN item.salePrice
                            ELSE item.purchasePrice
          IN  IF isAlreadySelected
                 \/ (lineForms.itemMode = "sales" /\ item.openingStock * BagKg <= 0)
              THEN UNCHANGED lineForms
              ELSE lineForms' = [lineForms EXCEPT !.selectedItems =
                                    Append(@, [id |-> item.id, weightKg |-> 0,
                                               pricePerKg |-> pricePerKg, totalPrice |-> 0])]
    /\ LineFrame

\* { ...item, weightKg: weight, totalPrice: weight * item.pricePerKg }
Weighed(selected, weight) ==
    [selected EXCEPT !.weightKg = weight, !.totalPrice = Mul(weight, selected.pricePerKg)]

\* AddItemsScreen.updateSelectedItemWeight
updateSelectedItemWeight ==
    /\ lineForms.picking
    /\ \E k \in DOMAIN lineForms.selectedItems, weightKg \in TypedText :
          LET weight == OrZero(parseFloat(weightKg))
              itemId == lineForms.selectedItems[k].id
              originalItem == CHOOSE item \in ListedItems : item.id = itemId
          IN  IF lineForms.itemMode = "sales" /\ weight > originalItem.openingStock * BagKg
              THEN UNCHANGED lineForms
              ELSE lineForms' = [lineForms EXCEPT !.selectedItems =
                                    [j \in DOMAIN @ |->
                                        IF @[j].id = itemId THEN Weighed(@[j], weight)
                                        ELSE @[j]]]
    /\ LineFrame

\* The line item made of a selected item by addItemsToBill.
BillItem(selected) ==
    [id |-> selected.id, quantity |-> selected.weightKg, rate |-> selected.pricePerKg,
     total |-> selected.totalPrice]

\* The line items handed over, with the ids the edit screens give them.
Incoming(selected, screen, base) ==
    [k \in DOMAIN selected |->
        IF screen \in {"edit-invoice", "edit-purchase"}
        THEN [BillItem(selected[k]) EXCEPT !.id = 10 * (base + k) + @]
        ELSE BillItem(selected[k])]

\* AddItemsScreen.addItemsToBill, and the focus effect of the form under it
\* appending the items it finds in tempSelectedItems.
addItemsToBill ==
    /\ lineForms.picking
    /\ LET selected == lineForms.selectedItems
       IN  IF selected = <<>> \/ \E k \in DOMAIN selected : selected[k].weightKg <= 0
           THEN UNCHANGED lineForms
           ELSE /\ Len(lineForms.items) + Len(selected) <= MaxFormLines
                /\ lineForms' = [lineForms EXCEPT
                                    !.items = @ \o Incoming(selected, lineForms.screen, Len(@)),
                                    !.picking = FALSE,
                                    !.selectedItems = <<>>]
    /\ LineFrame

\* The line with `field` set to `value` and the total it had.
EditedStaleTotal(line, field, value) ==
    IF field = "quantity" THEN [line EXCEPT !.quantity = value]
    ELSE [line EXCEPT !.rate = value]

\* updatedItems[index] = {...updatedItems[index], [field]: value} and, for
\* quantity and rate, total = quantity * rate.
Edited(line, field, value) ==
    LET updated == IF field = "quantity" THEN [line EXCEPT !.quantity = value]
                   ELSE [line EXCEPT !.rate = value]
    IN  [updated EXCEPT !.total = Mul(updated.quantity, updated.rate)]

\* The values the two inputs of a line pass on: parseInt(text) || 0 and
\* parseFloat(text) || 0.
EditedField(screen) ==
    /\ lineForms.screen = screen
    /\ ~lineForms.picking
    /\ \E index \in DOMAIN lineForms.items, field \in {"quantity", "rate"},
          text \in TypedText :
          lineForms' = [lineForms EXCEPT !.items[index] =
                           Edited(@, field, OrZero(parseFloat(text)))]
    /\ LineFrame

\* SalesScreen.updateInvoiceItem
updateInvoiceItem == EditedField("sales")

\* PurchaseScreen.updateBillItem: (quantity || 0) * (rate || 0), of values
\* that are numbers already.
updateBillItem == EditedField("purchase")

\* The document is created and opened in its edit screen, which loads the
\* line items the form sent.
openEditScreen ==
    /\ lineForms.screen \in {"sales", "purchase"}
    /\ ~lineForms.picking
    /\ lineForms.items # <<>>
    /\ lineForms' = [lineForms EXCEPT
                        !.screen = IF @ = "sales" THEN "edit-invoice" ELSE "edit-purchase"]
    /\ LineFrame

\* EditInvoiceScreen.editItem, EditPurchaseScreen.editItem
editItem ==
    /\ lineForms.screen \in {"edit-invoice", "edit-purchase"}
    /\ ~lineForms.picking
    /\ \E index \in DOMAIN lineForms.items :
          lineForms' = [lineForms EXCEPT
                           !.editingItem = index,
                           !.itemForm = [quantity |-> lineForms.items[index].quantity,
                                         rate |-> lineForms.items[index].rate]]
    /\ LineFrame

\* The user types into the quantity or the rate of the item modal.
onChangeItemForm ==
    /\ lineForms.editingItem # 0
    /\ \E text \in TypedText :
          \/ lineForms' = [lineForms EXCEPT !.itemForm.quantity = text]
          \/ lineForms' = [lineForms EXCEPT !.itemForm.rate = text]
    /\ LineFrame

\* The line replaced by updateItem: quantity, rate and total = quantity * rate.
Updated(line, quantity, rate) ==
    [line EXCEPT !.quantity = quantity, !.rate = rate, !.total = Mul(quantity, rate)]

\* EditInvoiceScreen.updateItem, EditPurchaseScreen.updateItem: every line
\* with the id of the edited one is replaced.
updateItem ==
    /\ lineForms.editingItem # 0
    /\ LET itemForm_ == lineForms.itemForm
           editing == lineForms.items[lineForms.editingItem]
       IN  IF itemForm_.quantity = EmptyText \/ itemForm_.rate = EmptyText
           THEN UNCHANGED lineForms
           ELSE lineForms' = [lineForms EXCEPT
                                 !.items = [j \in DOMAIN @ |->
                                               IF @[j].id = editing.id
                                               THEN Updated(editing,
                                                            parseFloat(itemForm_.quantity),
                                                            parseFloat(itemForm_.rate))
                                               ELSE @[j]],
                                 !.itemForm = NoItemForm,
                                 !.editingItem = 0]
    /\ LineFrame

(***************************************************************************)
(* apiRequest                                                              *)
(*                                                                         *)
(* requestCache maps the key of a GET to the promise of the request in     *)
(* flight.  A promise is named by the number of the fetch it wraps; the    *)
(* callers that hold it all go on when the fetch settles.                  *)
(***************************************************************************)
Methods == {None, "GET", "PUT"}     \* options.method; None when it is not given
Urls == {"/api/items", "/api/parties"}
Clients == {1, 2, 3}

\* !options.method || options.method === 'GET'
isGetRequest(method) == method = None \/ method = "GET"

\* `${options.method || 'GET'}:${url}` for a GET, null (None) otherwise.
cacheKey(method, url) == IF isGetRequest(method) THEN <<"GET", url>> ELSE None

IdleRequest == [method |-> None, url |-> None, promise |-> 0, outcome |-> None, data |-> 0]

NoRequests ==
    [requestCache |-> {}, fetches |-> {}, calls |-> [p \in Clients |-> IdleRequest],
     issued |-> 0, requested |-> 0]

ApiFrame ==
    /\ UNCHANGED <<openingStock, bardanaKg, processedInvoices, lineItems, call,
                   prev, ncalls>>
    /\ UNCHANGED <<ledgerVars, queryVars, fetchVars, formVars, catalogueVars, lineForms,
                   payEdit, partyBalance>>

\* The promise requestCache holds for the key, 0 when it has none.
CachedPromise(key) ==
    IF \E c \in api.requestCache : c.key = key
    THEN (CHOOSE c \in api.requestCache : c.key = key).promise
    ELSE 0

\* apiRequest(endpoint, options) is called: a GET whose key is cached returns
\* the cached promise; else the fetch is started and, for a GET, cached.
apiRequest(p, method, url) ==
    /\ api.calls[p].outcome # "pending"
    /\ api.requested < MaxRequests
    /\ LET key == cacheKey(method, url)
           started == api.issued + 1
       IN  IF key # None /\ CachedPromise(key) # 0
           THEN api' = [api EXCEPT
                           !.calls[p] = [method |-> method, url |-> url,
                                         promise |-> CachedPromise(key),
                                         outcome |-> "pending", data |-> 0],
                           !.requested = @ + 1]
           ELSE api' = [api EXCEPT
                           !.fetches = @ \cup {[id |-> started, method |-> method, url |-> url]},
                           !.requestCache = IF key # None
                                            THEN @ \cup {[key |-> key, promise |-> started]}
                                            ELSE @,
                           !.issued = started,
                           !.calls[p] = [method |-> method, url |-> url, promise |-> started,
                                         outcome |-> "pending", data |-> 0],
                           !.requested = @ + 1]
    /\ UNCHANGED nfailures
    /\ ApiFrame

\* Settled leaving the key in requestCache.
SettledKeepsKey(f, outcome) ==
    [api EXCEPT
        !.fetches = @ \ {f},
        !.calls = [p \in Clients |->
                      IF @[p].outcome = "pending" /\ @[p].promise = f.id
                      THEN [@[p] EXCEPT !.outcome = outcome, !.data = f.id]
                      ELSE @[p]]]

\* The fetch settles: finally deletes the key of a GET from requestCache, and
\* every caller that holds the promise gets its outcome.
Settled(f, outcome) ==
    [api EXCEPT
        !.fetches = @ \ {f},
        !.requestCache = {c \in @ : c.key # cacheKey(f.method, f.url)},
        !.calls = [p \in Clients |->
                      IF @[p].outcome = "pending" /\ @[p].promise = f.id
                      THEN [@[p] EXCEPT !.outcome = outcome, !.data = f.id]
                      ELSE @[p]]]

\* fetch(url, config) resolves with a success envelope, or fails.
fetchSettles ==
    /\ \E f \in api.fetches :
          \/ /\ api' = Settled(f, "resolved")
             /\ UNCHANGED nfailures
          \/ /\ Fails
             /\ api' = Settled(f, "rejected")
    /\ ApiFrame

(***************************************************************************)
(* Payment edit screens                                                    *)
(*                                                                         *)
(* EditPayInScreen and EditPayoutScreen load one payment, let the amount   *)
(* be typed again, and on save send the payment and then an update of the  *)
(* party's stored balance.  handleSavePayment runs from one await to the   *)
(* next in one step; pc names the request it is waiting for.               *)
(***************************************************************************)
PaymentScreens == {"payment-in", "payment-out"}
PaymentAmounts == {2, 4}                    \* payment.amount as stored
PaymentTexts == {EmptyText, NaN, 0, 1, 2, 3, 5}     \* formData.received / formData.paid
StoredBalances == {-3, 0, 5}                \* party.balance as stored

NoPayEdit ==
    [screen |-> None, pc |-> "idle", payment |-> 0, stored |-> 0, text |-> EmptyText,
     balance |-> 0, listed |-> FALSE, sent |-> <<>>, alert |-> None,
     original |-> 0, balanceBefore |-> 0, amountDifference |-> 0]

PayEditFrame ==
    /\ UNCHANGED <<openingStock, bardanaKg, processedInvoices, lineItems, call,
                   prev, ncalls>>
    /\ UNCHANGED <<ledgerVars, queryVars, fetchVars, formVars, catalogueVars, lineForms, api,
                   partyBalance>>

\* loadPayment: getPaymentById answers with the payment; the form shows its
\* amount.  The party of the payment has some stored balance, and is or is
\* not among the parties getParties lists under the name and phone of the form.
loadPayment(screen, amount, balance, listed) ==
    /\ payEdit.pc = "idle"
    /\ payEdit' = [NoPayEdit EXCEPT !.screen = screen, !.pc = "form", !.payment = amount,
                                   !.stored = amount, !.text = amount,
                                   !.balance = balance, !.listed = listed]
    /\ UNCHANGED nfailures
    /\ PayEditFrame

\* onChangeText of the amount field.
onChangeAmount(text) ==
    /\ payEdit.pc = "form"
    /\ text # payEdit.text
    /\ payEdit' = [payEdit EXCEPT !.text = text, !.alert = None]
    /\ UNCHANGED nfailures
    /\ PayEditFrame

\* handleSavePayment up to its first await: the checks of the form, then
\* amountDifference and the PUT of the payment.
handleSavePayment ==
    /\ payEdit.pc = "form"
    /\ LET received == parseFloat(payEdit.text)
       IN  IF payEdit.text = EmptyText
           THEN payEdit' = [payEdit EXCEPT !.alert = "Please fill all required fields"]
           ELSE IF received = NaN \/ received <= 0
           THEN payEdit' = [payEdit EXCEPT !.alert = "Please enter a valid amount"]
           ELSE payEdit' = [payEdit EXCEPT !.pc = "updatePayment", !.alert = None,
                                          !.original = payEdit.payment,
                                          !.balanceBefore = payEdit.balance,
                                          !.amountDifference = received - payEdit.payment]
    /\ UNCHANGED nfailures
    /\ PayEditFrame

\* PaymentApiService.updatePayment is answered; when the amount changed the
\* screen goes on to getParties, else it is done.
updatePaymentResponse ==
    /\ payEdit.pc = "updatePayment"
    /\ \/ /\ payEdit' = [payEdit EXCEPT
                            !.stored = parseFloat(payEdit.text),
                            !.pc = IF payEdit.amountDifference # 0 THEN "getParties"
                                   ELSE "done",
                            !.alert = IF payEdit.amountDifference # 0 THEN None
                                      ELSE "Payment updated successfully!"]
          /\ UNCHANGED nfailures
       \/ /\ Fails
          /\ payEdit' = [payEdit EXCEPT !.pc = "form", !.alert = "Failed to save payment"]
    /\ PayEditFrame

Abs(x) == IF x < 0 THEN -x ELSE x

\* The operation the screen asks of the stored balance.
balanceOperation(screen) == IF screen = "payment-in" THEN "subtract" ELSE "add"

\* PartyApiService.getParties is answered: a party found is sent
\* updatePartyBalance(party.id, Math.abs(amountDifference), operation); with
\* no party found, or the request failed, the save ends as a success.
getPartiesResponse ==
    /\ payEdit.pc = "getParties"
    /\ \/ /\ payEdit' =
                IF payEdit.listed
                THEN [payEdit EXCEPT
                         !.pc = "updatePartyBalance",
                         !.sent = Append(@, [amount |-> Abs(payEdit.amountDifference),
                                             operation |-> balanceOperation(payEdit.screen)])]
                ELSE [payEdit EXCEPT !.pc = "done",
                                     !.alert = "Payment updated successfully!"]
          /\ UNCHANGED nfailures
       \/ /\ Fails
          /\ payEdit' = [payEdit EXCEPT !.pc = "done",
                                        !.alert = "Payment updated successfully!"]
    /\ PayEditFrame

\* PATCH /api/parties/:id/balance {amount, operation} in the store.
balanceAfter(balance, amount, operation) ==
    CASE operation = "add" -> balance + amount
      [] operation = "subtract" -> balance - amount
      [] operation = "set" -> amount

\* PartyApiService.updatePartyBalance is answered.
updatePartyBalanceResponse ==
    /\ payEdit.pc = "updatePartyBalance"
    /\ LET update == payEdit.sent[Len(payEdit.sent)]
       IN  \/ /\ payEdit' = [payEdit EXCEPT
                                !.balance = balanceAfter(@, update.amount, update.operation),
                                !.pc = "done",
                                !.alert = "Payment updated successfully!"]
              /\ UNCHANGED nfailures
           \/ /\ Fails
              /\ payEdit' = [payEdit EXCEPT !.pc = "done",
                                            !.alert = "Payment updated successfully!"]
    /\ PayEditFrame

\* router.back(): the screen is left.
leavePaymentScreen ==
    /\ payEdit.pc = "done"
    /\ payEdit' = NoPayEdit
    /\ UNCHANGED nfailures
    /\ PayEditFrame

(***************************************************************************)
(* getPartyBalance                                                         *)
(*                                                                         *)
(* The fold of getPartyBalance over the list getPartyTransactions          *)
(* returned: one running balance, started at 0.                            *)
(***************************************************************************)
\* BalanceStep with a payment-out subtracted.
BalanceStepPaymentOutSubtracts(balance, t) ==
    CASE t.type = "invoice" -> Add(balance, t.amount)
      [] t.type = "bill" -> Sub(balance, t.amount)
      [] t.type = "payment-in" -> Sub(balance, t.amount)
      [] t.type = "payment-out" -> Sub(balance, t.amount)

\* One iteration of the forEach: the switch on transaction.type.
BalanceStep(balance, t) ==
    CASE t.type = "invoice" -> Add(balance, t.amount)
      [] t.type = "bill" -> Sub(balance, t.amount)
      [] t.type = "payment-in" -> Sub(balance, t.amount)
      [] t.type = "payment-out" -> Add(balance, t.amount)

RECURSIVE BalanceFrom(_, _, _)
BalanceFrom(balance, txs, i) ==
    IF i > Len(txs) THEN balance ELSE BalanceFrom(BalanceStep(balance, txs[i]), txs, i + 1)

NoPartyBalance == [value |-> <<>>, readsOk |-> TRUE]

\* getPartyBalance(partyName, phoneNumber): the fold of the transactions of
\* the party.  When a read of getPartyTransactions is rejected its catch
\* returns [] and the fold is over nothing.
getPartyBalance ==
    /\ \/ /\ partyBalance' = [value |-> <<BalanceFrom(0, transactions, 1)>>, readsOk |-> TRUE]
          /\ UNCHANGED nfailures
       \/ /\ Fails
          /\ partyBalance' = [value |-> <<BalanceFrom(0, <<>>, 1)>>, readsOk |-> FALSE]
    /\ UNCHANGED <<openingStock, bardanaKg, processedInvoices, lineItems, call,
                   prev, ncalls>>
    /\ UNCHANGED <<ledgerVars, queryVars, fetchVars, formVars, catalogueVars, lineForms, api,
                   payEdit>>

(***************************************************************************)
(* Specifications.                                                         *)
(***************************************************************************)
FormsIdle ==
    /\ storedItem = <<>>
    /\ itemForm = <<>>
    /\ enteredKg = <<>>

CatalogueIdle ==
    /\ catalogue = {}
    /\ screenItems = {}
    /\ editedItem = <<>>
    /\ editedName = ""
    /\ deleteRequests = {}

LineFormsIdle == lineForms = NoLineForms

ApiIdle == api = NoRequests

PayEditIdle == payEdit = NoPayEdit

ExtraIdle ==
    /\ CatalogueIdle /\ LineFormsIdle /\ ApiIdle /\ PayEditIdle
    /\ partyBalance = NoPartyBalance

EmptyStore == [sales |-> <<>>, purchases |-> <<>>, payments |-> <<>>, parties |-> <<>>]

FetchIdle ==
    /\ requestCache = {}
    /\ fetch = [p \in Callers |-> IdleFetch]
    /\ listing = IdleListing
    /\ nfetches = 0

LedgerIdle ==
    /\ transactions = <<>>
    /\ breakdown = <<>>
    /\ reference = <<>>
    /\ reordered = FALSE
    /\ answer = NoAnswer
    /\ store = EmptyStore
    /\ FetchIdle
    /\ FormsIdle
    /\ ExtraIdle

\* 2 bags of Rice and half a bag of Dal.
InitialStock == [n \in ProductNames |-> IF n = "Rice" THEN 200 ELSE 50]

\* 100 kg of Bardana.
InitialBardanaKg == 100

StockInit ==
    /\ openingStock = InitialStock
    /\ bardanaKg = InitialBardanaKg
    /\ processedInvoices = {}
    /\ lineItems \in Documents
    /\ call = [c \in Slots |-> IdleCall]
    /\ prev = IdleCall
    /\ ncalls = 0
    /\ nfailures = 0

\* The inventory, one StockManager call at a time.
Init == LedgerIdle /\ StockInit

Next ==
    \/ updateStockOnSale(1)
    \/ updateStockOnPurchase(1)
    \/ revertStockOnSale(1)
    \/ BardanaResponse(1)
    \/ LookupResponse(1)
    \/ UpdateResponse(1)
    \/ clearProcessedInvoices
    \/ \E invoiceId \in InvoiceIds : removeProcessedInvoice(invoiceId)

Spec == Init /\ [][Next]_vars

\* The ledger fold over every transaction list within the bounds.
LedgerInit ==
    /\ transactions \in SeqsUpTo(PartyTransaction, MaxTx)
    /\ breakdown = <<>>
    /\ reference = <<>>
    /\ reordered = FALSE
    /\ openingStock = [n \in ProductNames |-> 0]
    /\ bardanaKg = 0
    /\ processedInvoices = {}
    /\ lineItems = <<>>
    /\ call = [c \in Slots |-> IdleCall]
    /\ prev = IdleCall
    /\ ncalls = 0
    /\ nfailures = 0
    /\ answer = NoAnswer
    /\ store = EmptyStore
    /\ FetchIdle
    /\ FormsIdle
    /\ ExtraIdle

LedgerNext == Calculate \/ Reorder

SpecLedger == LedgerInit /\ [][LedgerNext]_vars

\* The inventory with its query helpers and the management of the processed
\* set, for three documents: one name on two lines, two names, and a name the
\* store has only in another case.
QueryDocuments ==
    {<<[itemName |-> "Rice", quantity |-> 40], [itemName |-> "Rice", quantity |-> 40]>>,
     <<[itemName |-> "Dal", quantity |-> 40], [itemName |-> "Rice", quantity |-> 40]>>,
     <<[itemName |-> "rice", quantity |-> 0]>>}

QueryInit ==
    /\ LedgerIdle
    /\ StockInit
    /\ lineItems \in QueryDocuments

QueryNext ==
    \/ Next
    \/ AskItemStock
    \/ AskSufficientStock
    \/ AskBardanaStock
    \/ AskSufficientBardanaStock
    \/ AskLowStockItems
    \/ AskInvoiceProcessed
    \/ AskProcessedInvoicesCount
    \/ AskProcessedInvoiceIds

SpecQueries == QueryInit /\ [][QueryNext]_vars

\* No StockManager call and no fold of a given list.
ScreensIdle ==
    /\ transactions = <<>>
    /\ breakdown = <<>>
    /\ reference = <<>>
    /\ reordered = FALSE
    /\ answer = NoAnswer
    /\ openingStock = [n \in ProductNames |-> 0]
    /\ bardanaKg = 0
    /\ processedInvoices = {}
    /\ lineItems = <<>>
    /\ call = [c \in Slots |-> IdleCall]
    /\ prev = IdleCall
    /\ ncalls = 0
    /\ nfailures = 0
    /\ ExtraIdle

\* One party's balance computed from what the backend holds.
FetchInit ==
    /\ ScreensIdle
    /\ FetchIdle
    /\ FormsIdle
    /\ \E sales \in SeqsUpTo(RowsOf({"invoice"}, 1), MaxRows),
          purchases \in SeqsUpTo(RowsOf({"bill"}, 2), MaxRows),
          payments \in SeqsUpTo(RowsOf({"payment-in", "payment-out"}, 3), MaxRows) :
          store = [sales |-> sales, purchases |-> purchases, payments |-> payments,
                   parties |-> <<>>]

FetchNext ==
    \/ calculatePartyBalanceFromTransactions
    \/ \E e \in Endpoints : ReadResponse(e)

SpecFetch == FetchInit /\ [][FetchNext]_vars

\* The balances of all the parties the backend lists.
ListingInit ==
    /\ ScreensIdle
    /\ FetchIdle
    /\ FormsIdle
    /\ \E sales \in SeqsUpTo(RowsOf({"invoice"}, 1), MaxRows),
          purchases \in SeqsUpTo(RowsOf({"bill"}, 2), MaxRows),
          payments \in SeqsUpTo(RowsOf({"payment-in", "payment-out"}, 3), MaxRows),
          parties \in SeqsUpTo(ListedParties, MaxParties) :
          store = [sales |-> sales, purchases |-> purchases, payments |-> payments,
                   parties |-> parties]

ListingNext ==
    \/ getPartiesWithBalances
    \/ PartiesResponse
    \/ \E e \in Endpoints : ReadResponse(e)

SpecListing == ListingInit /\ [][ListingNext]_vars

\* The item screens: an item is created, loaded into the edit form, edited
\* and saved.
FormsInit ==
    /\ ScreensIdle
    /\ store = EmptyStore
    /\ FetchIdle
    /\ FormsIdle

FormsNext ==
    \/ handleCreateItem
    \/ loadItem
    \/ onChangeText
    \/ handleSaveItem

SpecForms == FormsInit /\ [][FormsNext]_vars

\* The inventory with both slots in use: two calls for the same document,
\* each started once, in any interleaving of their answers.
RaceDocuments ==
    {<<[itemName |-> "Rice", quantity |-> 40]>>,
     <<[itemName |-> "Dal", quantity |-> 40], [itemName |-> "Rice", quantity |-> 40]>>,
     <<[itemName |-> "rice", quantity |-> 40]>>}

RaceInit ==
    /\ LedgerIdle
    /\ StockInit
    /\ lineItems \in RaceDocuments

RaceNext ==
    \/ \E c \in Slots : call[c].pc = "idle" /\ updateStockOnSale(c)
    \/ \E c \in Slots : call[c].pc = "idle" /\ updateStockOnPurchase(c)
    \/ \E c \in Slots : call[c].pc = "idle" /\ revertStockOnSale(c)
    \/ \E c \in Slots : BardanaResponse(c)
    \/ \E itemName \in ItemNames : getItemsResponse(itemName)
    \/ \E c \in Slots : UpdateResponse(c)

SpecRace == RaceInit /\ [][RaceNext]_vars

\* A sale, its revert and the sale again, one call at a time: the sales run
\* in slot 1 and the revert in slot 2, so that the first sale (prev), the
\* revert (call[2]) and the last sale (call[1]) are all in the state.
NoCallInFlight == \A c \in Slots : call[c].pc \in {"idle", "done"}

\* StockManager.updateStockOnSale(lineItems, invoiceId) is called.
SaleInSequence ==
    /\ NoCallInFlight
    /\ ncalls < MaxSequence
    /\ \E invoiceId \in InvoiceIds \cup {None} : Start(1, saleStart(lineItems, invoiceId))

\* StockManager.revertStockOnSale(lineItems) is called after the first sale.
RevertInSequence ==
    /\ NoCallInFlight
    /\ ncalls = 1
    /\ call[1].pc = "done"
    /\ Start(2, revertStart(lineItems))

SequenceInit ==
    /\ LedgerIdle
    /\ StockInit
    /\ lineItems \in RaceDocuments

SequenceNext ==
    \/ SaleInSequence
    \/ RevertInSequence
    \/ \E c \in Slots : BardanaResponse(c)
    \/ \E c \in Slots : LookupResponse(c)
    \/ \E c \in Slots : UpdateResponse(c)
    \/ clearProcessedInvoices
    \/ \E invoiceId \in InvoiceIds : removeProcessedInvoice(invoiceId)

SpecSequence == SequenceInit /\ [][SequenceNext]_vars

\* The items screen and the edit screen over a backend that starts empty.
CatalogueInit ==
    /\ ScreensIdle
    /\ store = EmptyStore
    /\ FetchIdle
    /\ FormsIdle

CatalogueNext ==
    \/ loadItems
    \/ handleCreateNamedItem
    \/ handleDeleteItem
    \/ loadNamedItem
    \/ onChangeName
    \/ handleSaveNamedItem
    \/ handleDeleteEditedItem
    \/ leaveEditScreen

SpecCatalogue == CatalogueInit /\ [][CatalogueNext]_vars

\* A document form, the add-items screen over it and its edit screen.
LineInit ==
    /\ ScreensIdle
    /\ store = EmptyStore
    /\ FetchIdle
    /\ FormsIdle

LineNext ==
    \/ openForm
    \/ openAddItems
    \/ selectItem
    \/ updateSelectedItemWeight
    \/ addItemsToBill
    \/ updateInvoiceItem
    \/ updateBillItem
    \/ openEditScreen
    \/ editItem
    \/ onChangeItemForm
    \/ updateItem

SpecLines == LineInit /\ [][LineNext]_vars

\* Callers of apiRequest and the fetches they wait for.
ApiInit ==
    /\ ScreensIdle
    /\ store = EmptyStore
    /\ FetchIdle
    /\ FormsIdle

ApiNext ==
    \/ \E p \in Clients, method \in Methods, url \in Urls : apiRequest(p, method, url)
    \/ fetchSettles

SpecApi == ApiInit /\ [][ApiNext]_vars

\* A payment is edited on its screen.
PayEditInit ==
    /\ ScreensIdle
    /\ store = EmptyStore
    /\ FetchIdle
    /\ FormsIdle

PayEditNext ==
    \/ \E screen \in PaymentScreens, amount \in PaymentAmounts,
          balance \in StoredBalances, listed \in BOOLEAN :
          loadPayment(screen, amount, balance, listed)
    \/ \E text \in PaymentTexts : onChangeAmount(text)
    \/ handleSavePayment
    \/ updatePaymentResponse
    \/ getPartiesResponse
    \/ updatePartyBalanceResponse
    \/ leavePaymentScreen

SpecPayEdit == PayEditInit /\ [][PayEditNext]_vars

\* The two balance entry points over every transaction list within the bounds.
BalanceNext == Calculate \/ getPartyBalance

SpecBalance == LedgerInit /\ [][BalanceNext]_vars

(***************************************************************************)
(* Properties of the ledger, checked under SpecLedger.                     *)
(***************************************************************************)
\* The sum of the amounts of one kind, counted amount by amount.
RECURSIVE KindTotalUpTo(_, _, _)
KindTotalUpTo(txs, type, a) ==
    IF a = 0 THEN 0
    ELSE a * Cardinality({i \in DOMAIN txs : txs[i].type = type /\ txs[i].amount = a})
         + KindTotalUpTo(txs, type, a - 1)

KindTotal(txs, type) == KindTotalUpTo(txs, type, MaxAmount)

\* C1: the breakdown returned for a list holds the per-kind sums, the count of
\* the transactions folded, and balance = invoices - bills - payments in +
\* payments out, whatever the sign of the running balance; for the empty list
\* every field is 0.
C1_BalanceIsSignedSum ==
    breakdown # <<>> =>
        LET b == breakdown[1]
            invoiced == KindTotal(transactions, "invoice")
            billed == KindTotal(transactions, "bill")
            paidIn == KindTotal(transactions, "payment-in")
            paidOut == KindTotal(transactions, "payment-out")
        IN  /\ b.totalInvoiced = invoiced
            /\ b.totalBilled = billed
            /\ b.totalPaymentIn = paidIn
            /\ b.totalPaymentOut = paidOut
            /\ b.transactionCount = Len(transactions)
            /\ b.balance = invoiced - billed - paidIn + paidOut
            /\ (transactions = <<>> => b = ZeroBreakdown)

\* A list with all four kinds whose balance went negative was folded.
C1_Witness ==
    /\ breakdown # <<>>
    /\ {transactions[i].type : i \in DOMAIN transactions} = TxTypes
    /\ transactions[1].type = "bill"
    /\ breakdown[1].balance < 0

\* C2: every ordering of the same transactions gives the breakdown the first
\* ordering gave.
C2_OrderIndependent ==
    (breakdown # <<>> /\ reference # <<>>) => breakdown = reference

\* A reordered list of at least three kinds was folded again.
C2_Witness ==
    /\ reordered
    /\ breakdown # <<>>
    /\ Cardinality({transactions[i].type : i \in DOMAIN transactions}) >= 3

(***************************************************************************)
(* Properties of the inventory, checked under Spec.                        *)
(***************************************************************************)
\* The kg of the lines named in `names`, counted quantity by quantity.
RECURSIVE WeightedCount(_, _, _)
WeightedCount(items, names, quantities) ==
    IF quantities = {} THEN 0
    ELSE LET q == CHOOSE x \in quantities : TRUE
         IN  q * Cardinality({i \in DOMAIN items :
                                 items[i].quantity = q /\ items[i].itemName \in names})
             + WeightedCount(items, names, quantities \ {q})

KgOf(items, names) == WeightedCount(items, names, Quantities)

NamesOf(items) == {items[i].itemName : i \in DOMAIN items}

\* The call got past the input validation and the duplicate check.
Applied(cl) == cl.pc # "idle" /\ cl.soldItems # <<>> /\ ~cl.duplicate

BardanaRequests(log) == {k \in DOMAIN log : log[k].req \in {"add", "subtract"}}

Entries(log, req, name) == {k \in DOMAIN log : log[k].req = req /\ log[k].name = name}

\* Call c takes its last step: it returns or throws.
Completes(c) == call'[c].pc = "done" /\ (call[c].pc # "done" \/ ncalls' # ncalls)

\* Call c takes its first step.
Starts(c) == ncalls' # ncalls /\ call'[c] # call[c]

StoreUnchanged == openingStock' = openingStock /\ bardanaKg' = bardanaKg

\* One step of a sale with an id: returning, it leaves the id processed;
\* starting while the id is processed, it returns at once.
C3_SaleStep ==
    \A c \in Slots :
        /\ (/\ Completes(c)
            /\ call'[c].op = "sale"
            /\ call'[c].outcome = "returned"
            /\ call'[c].invoiceId # None
            /\ call'[c].soldItems # <<>>)
           => call'[c].invoiceId \in processedInvoices'
        /\ (/\ Starts(c)
            /\ call'[c].op = "sale"
            /\ call'[c].soldItems # <<>>
            /\ call'[c].invoiceId \in processedInvoices)
           => /\ call'[c].pc = "done"
              /\ call'[c].outcome = "returned"
              /\ call'[c].log = <<>>
              /\ StoreUnchanged
              /\ processedInvoices' = processedInvoices

\* C3: a sale given an id and line items that returns leaves the id processed,
\* and a sale started with the same line items while that id is processed
\* returns at once: it sends no request and changes neither a stock nor the
\* set.  So of two such calls in sequence only the first mutates stock.
C3_IdempotentSale == [][C3_SaleStep]_vars

\* The same sale was applied, changing stock, and then called again and skipped.
C3_Witness ==
    /\ prev.op = "sale" /\ prev.outcome = "returned" /\ prev.invoiceId = "INV-1"
    /\ Len(prev.log) >= 3
    /\ prev.before.stock # call[1].before.stock
    /\ call[1].op = "sale" /\ call[1].invoiceId = "INV-1"
    /\ call[1].soldItems = prev.soldItems
    /\ call[1].pc = "done" /\ call[1].duplicate /\ call[1].log = <<>>
    /\ openingStock = call[1].before.stock
    /\ bardanaKg = call[1].before.bardana
    /\ "INV-1" \in processedInvoices

\* v is Math.max(0, Math.round(x)) for x = num / BagKg.
IsFlooredRound(v, num) ==
    \/ v = 0 /\ 2 * num < BagKg
    \/ v > 0 /\ 2 * BagKg * v - BagKg <= 2 * num /\ 2 * num < 2 * BagKg * v + BagKg

\* C4: every stock a sale writes is max(0, round((stock read - kg / 30) * 100)
\* / 100): never negative, and 0 when more was sold than the stock read; once
\* written it is the item's stock.
C4_SaleStockFloor ==
    LET cl == call[1]
    IN  cl.op = "sale" =>
            \A k \in DOMAIN cl.log :
                LET e == cl.log[k]
                IN  e.req = "updateItem" =>
                        /\ e.value >= 0
                        /\ IsFlooredRound(e.value, BagKg * e.read - 100 * e.quantity)
                        /\ (100 * e.quantity > BagKg * e.read => e.value = 0)
                        /\ e.read = cl.before.stock[e.name]
                        /\ e.quantity = KgOf(cl.soldItems, {e.name})
                        /\ (e.status = "ok" => openingStock[e.name] = e.value)

\* A sale of more than the stock in hand left the item at 0 bags.
C4_Witness ==
    LET cl == call[1]
    IN  /\ cl.op = "sale"
        /\ \E k \in DOMAIN cl.log :
              /\ cl.log[k].req = "updateItem"
              /\ cl.log[k].status = "ok"
              /\ cl.log[k].read > 0
              /\ 100 * cl.log[k].quantity > BagKg * cl.log[k].read
              /\ openingStock[cl.log[k].name] = 0

\* C5: a sale that is applied sends, when the kg of all its lines is positive,
\* one Bardana subtract of that total, whatever the names on the lines, as its
\* first request, and no Bardana request when the total is 0.
C5_BardanaDeltaOnSale ==
    LET cl == call[1]
        total == KgOf(cl.soldItems, ItemNames)
    IN  (cl.op = "sale" /\ Applied(cl)) =>
            /\ total = 0 => BardanaRequests(cl.log) = {}
            /\ total > 0 =>
                  /\ BardanaRequests(cl.log) = {1}
                  /\ cl.log[1].req = "subtract"
                  /\ cl.log[1].name = "Bardana"
                  /\ cl.log[1].value = total

\* A sale of two different items sent its Bardana subtract, then looked items up.
C5_Witness ==
    LET cl == call[1]
    IN  /\ cl.op = "sale"
        /\ Cardinality(NamesOf(cl.soldItems)) = 2
        /\ \A i \in DOMAIN cl.soldItems : cl.soldItems[i].quantity > 0
        /\ Len(cl.log) >= 2
        /\ cl.log[1].req = "subtract"
        /\ cl.log[1].status = "ok"
        /\ cl.log[2].req = "getItems"

\* The Bardana update of the call was rejected.
BardanaFailed(cl) ==
    /\ cl.log # <<>>
    /\ cl.log[1].req \in {"add", "subtract"}
    /\ cl.log[1].status = "failed"

C7_BardanaFailureAborts ==
    LET cl == call[1]
    IN  /\ BardanaFailed(cl) =>
              /\ cl.pc = "done"
              /\ cl.outcome = "threw"
              /\ Len(cl.log) = 1
              /\ openingStock = cl.before.stock
              /\ (cl.invoiceId # None => cl.invoiceId \notin processedInvoices)
        /\ (/\ BardanaFailed(prev) /\ prev.op = "sale"
            /\ cl.op = "sale" /\ cl.pc # "idle"
            /\ cl.soldItems = prev.soldItems /\ cl.invoiceId = prev.invoiceId)
           => /\ ~cl.duplicate
              /\ cl.log # <<>>
              /\ cl.log[1].req = "subtract"

\* A sale threw on its Bardana update; called again with the same id it was
\* applied and its id marked.
C7_Witness ==
    LET cl == call[1]
    IN  /\ BardanaFailed(prev) /\ prev.op = "sale" /\ prev.invoiceId = "INV-1"
        /\ prev.outcome = "threw"
        /\ cl.op = "sale" /\ cl.invoiceId = "INV-1" /\ cl.soldItems = prev.soldItems
        /\ cl.pc = "done" /\ cl.outcome = "returned"
        /\ bardanaKg < cl.before.bardana
        /\ "INV-1" \in processedInvoices

\* One step seen from the processed set: what may add to it and what may not.
C8_ProcessedStep ==
    /\ \A id \in InvoiceIds :
          (id \in processedInvoices' /\ id \notin processedInvoices) =>
              \E c \in Slots :
                  /\ Completes(c)
                  /\ call'[c].op = "sale"
                  /\ call'[c].invoiceId = id
                  /\ call'[c].soldItems # <<>>
                  /\ call'[c].outcome = "returned"
    /\ \A c \in Slots :
          (/\ Completes(c)
           /\ call'[c].op = "sale"
           /\ \/ call'[c].outcome = "threw"
              \/ call'[c].invoiceId = None
              \/ call'[c].soldItems = <<>>)
          => processedInvoices' = processedInvoices

\* C8: an id enters the processed set only in the step in which a sale given
\* that id and line items returns; a sale that throws, has no id or has no
\* line items leaves the set as it was.
C8_ProcessedMembership == [][C8_ProcessedStep]_vars

\* After a sale with one id was applied, a sale with another id threw: only
\* the first id is processed.
C8_Witness ==
    /\ prev.op = "sale" /\ prev.invoiceId = "INV-2" /\ prev.outcome = "returned"
    /\ call[1].op = "sale" /\ call[1].invoiceId = "INV-1"
    /\ call[1].outcome = "threw"
    /\ processedInvoices = {"INV-2"}

\* v is Math.round(x) for x = num / BagKg.
IsRound(v, num) ==
    2 * BagKg * v - BagKg <= 2 * num /\ 2 * num < 2 * BagKg * v + BagKg

\* C9: a purchase that is given line items sends one Bardana add of the total
\* kg first (none when the total is 0) and writes each found item's stock as
\* round((stock read + kg / 30) * 100) / 100, never less than the stock read;
\* called again with the same line items it is not skipped: it starts from the
\* stocks the first call wrote and adds again.
C9_PurchaseAdds ==
    LET cl == call[1]
        total == KgOf(cl.soldItems, ItemNames)
    IN  /\ (cl.op = "purchase" /\ Applied(cl)) =>
              /\ total = 0 => BardanaRequests(cl.log) = {}
              /\ total > 0 =>
                    /\ BardanaRequests(cl.log) = {1}
                    /\ cl.log[1].req = "add"
                    /\ cl.log[1].name = "Bardana"
                    /\ cl.log[1].value = total
              /\ \A k \in DOMAIN cl.log :
                    LET e == cl.log[k]
                    IN  e.req = "updateItem" =>
                            /\ IsRound(e.value, BagKg * e.read + 100 * e.quantity)
                            /\ e.value >= e.read
                            /\ e.read = cl.before.stock[e.name]
                            /\ e.quantity = KgOf(cl.soldItems, {e.name})
                            /\ (e.status = "ok" => openingStock[e.name] = e.value)
        /\ (/\ prev.op = "purchase" /\ cl.op = "purchase" /\ cl.pc # "idle"
            /\ cl.soldItems = prev.soldItems /\ cl.soldItems # <<>>)
           => /\ ~cl.duplicate
              /\ cl.log # <<>>
              /\ cl.invoiceId = None
              /\ \A k \in DOMAIN prev.log :
                    (prev.log[k].req = "updateItem" /\ prev.log[k].status = "ok")
                        => cl.before.stock[prev.log[k].name] = prev.log[k].value
              /\ total > 0 => (prev.log[1].req = "add" /\ cl.log[1].req = "add")

\* The same purchase was applied twice and the stock of Rice rose both times.
C9_Witness ==
    LET cl == call[1]
    IN  /\ prev.op = "purchase" /\ cl.op = "purchase"
        /\ cl.soldItems = prev.soldItems
        /\ cl.pc = "done" /\ cl.outcome = "returned"
        /\ \A k \in DOMAIN cl.log : cl.log[k].status = "ok"
        /\ openingStock["Rice"] > cl.before.stock["Rice"]
        /\ cl.before.stock["Rice"] > prev.before.stock["Rice"]
        /\ bardanaKg > cl.before.bardana
        /\ cl.before.bardana > prev.before.bardana

\* Every request of the finished call was answered without an error.
AllAnswered(cl) ==
    /\ cl.pc = "done"
    /\ cl.outcome = "returned"
    /\ \A k \in DOMAIN cl.log : cl.log[k].status \in {"ok", "notfound"}

\* C10: a sale followed by the revert of the same line items, every request
\* answered, leaves each item named on them, and Bardana, with the stock it
\* had before the sale.
C10_RevertRestores ==
    LET cl == call[1]
    IN  (/\ prev.op = "sale" /\ Applied(prev) /\ AllAnswered(prev)
         /\ cl.op = "revert" /\ cl.soldItems = prev.soldItems /\ AllAnswered(cl))
        => /\ \A n \in ProductNames \cap NamesOf(cl.soldItems) :
                 openingStock[n] = prev.before.stock[n]
           /\ bardanaKg = prev.before.bardana

\* The same, for a sale that sold no more of any item than its stock.
C10_RevertRestoresUnclamped ==
    LET cl == call[1]
    IN  (/\ prev.op = "sale" /\ Applied(prev) /\ AllAnswered(prev)
         /\ cl.op = "revert" /\ cl.soldItems = prev.soldItems /\ AllAnswered(cl)
         /\ \A k \in DOMAIN prev.log :
               prev.log[k].req = "updateItem"
                   => 100 * prev.log[k].quantity <= BagKg * prev.log[k].read)
        => /\ \A n \in ProductNames \cap NamesOf(cl.soldItems) :
                 openingStock[n] = prev.before.stock[n]
           /\ bardanaKg = prev.before.bardana

\* C16: a call that is applied looks each distinct item name up once and sends
\* at most one update for it, none for a name that is on no line; the update
\* is computed from the stock the item had when the call began and the kg of
\* all the lines with exactly that name, so the stock written is the one a
\* single line with the summed quantity gives, whatever the order of the lines.
C16_Consolidation ==
    LET cl == call[1]
    IN  Applied(cl) =>
            \A n \in ItemNames :
                LET lookups == Entries(cl.log, "getItems", n)
                    updates == Entries(cl.log, "updateItem", n)
                    kg == KgOf(cl.soldItems, {n})
                IN  /\ Cardinality(lookups) <= 1
                    /\ Cardinality(updates) <= Cardinality(lookups)
                    /\ n \notin NamesOf(cl.soldItems) => lookups = {}
                    /\ (cl.pc = "done" /\ ~BardanaFailed(cl) /\ n \in NamesOf(cl.soldItems))
                          => Cardinality(lookups) = 1
                    /\ \A k \in updates :
                          /\ cl.log[k].quantity = kg
                          /\ cl.log[k].read = cl.before.stock[n]
                          /\ cl.log[k].value
                                = newStockFor(cl.op,
                                              cl.before.stock[n],
                                              totalQuantity(<<[itemName |-> n, quantity |-> kg]>>))
                          /\ (cl.log[k].status = "ok" => openingStock[n] = cl.log[k].value)

\* A purchase with two lines of Rice looked Rice up once and wrote its stock
\* once, from the kg of both lines.
C16_Witness ==
    LET cl == call[1]
    IN  /\ cl.op = "purchase" /\ cl.pc = "done"
        /\ Len(cl.soldItems) = 2
        /\ NamesOf(cl.soldItems) = {"Rice"}
        /\ \A i \in DOMAIN cl.soldItems : cl.soldItems[i].quantity > 0
        /\ Cardinality(Entries(cl.log, "getItems", "Rice")) = 1
        /\ \E k \in Entries(cl.log, "updateItem", "Rice") :
              /\ cl.log[k].status = "ok"
              /\ cl.log[k].quantity = cl.soldItems[1].quantity + cl.soldItems[2].quantity
              /\ openingStock["Rice"] = cl.log[k].value

\* A call started with an empty list, or a sale or purchase without a list.
C17_EmptyStep ==
    (/\ ncalls' # ncalls
     /\ call'[1].soldItems = <<>>
     /\ (call'[1].missing => call'[1].op \in {"sale", "purchase"}))
    => /\ call'[1].pc = "done"
       /\ call'[1].outcome = "returned"
       /\ call'[1].log = <<>>
       /\ StoreUnchanged
       /\ processedInvoices' = processedInvoices

\* C17: updateStockOnSale, updateStockOnPurchase and revertStockOnSale called
\* with an empty list, and the first two called without a list, return in the
\* step that starts them without throwing: they send no request and leave
\* every stock and the processed set as they were, with or without an id.
C17_EmptyInputNoOp == [][C17_EmptyStep]_vars

\* A sale without a list but with an id returned, then a revert of an empty
\* list returned: nothing was sent, nothing changed, the id is not processed.
C17_Witness ==
    /\ lineItems # <<>>
    /\ prev.op = "sale" /\ prev.missing /\ prev.invoiceId = "INV-1"
    /\ prev.outcome = "returned" /\ prev.log = <<>>
    /\ call[1].op = "revert" /\ ~call[1].missing /\ call[1].soldItems = <<>>
    /\ call[1].outcome = "returned" /\ call[1].log = <<>>
    /\ openingStock = InitialStock
    /\ bardanaKg = prev.before.bardana
    /\ processedInvoices = {}

(***************************************************************************)
(* Properties of the query helpers and of the processed set, checked under *)
(* SpecQueries.                                                            *)
(***************************************************************************)
\* A step of a StockManager call of one of the given kinds.
CallStep(ops) == call' # call /\ call'[1].op \in ops

\* A query helper returned.
QueryStep == answer' # answer

\* What a step may do to the processed set, by the operation taking it.
C11_FrameStep ==
    /\ CallStep({"purchase", "revert"}) => processedInvoices' = processedInvoices
    /\ QueryStep => processedInvoices' = processedInvoices
    /\ ~(processedInvoices \subseteq processedInvoices')
          => (call' = call /\ answer' = answer)
    /\ ~(processedInvoices' \subseteq processedInvoices)
          => (CallStep({"sale"}) /\ processedInvoices \subseteq processedInvoices')

\* C11: a step of updateStockOnPurchase or revertStockOnSale and every query
\* helper leave the processed set as it was; an id enters the set only in a
\* step of updateStockOnSale and leaves it only in a step that is neither a
\* call's nor a helper's: clearProcessedInvoices or removeProcessedInvoice.
C11_ProcessedFrame == [][C11_FrameStep]_vars

\* With an id processed, a revert changed stock and the ids were listed: the
\* id is still the only one processed.
C11_Witness ==
    /\ prev.op = "sale" /\ prev.invoiceId = "INV-1" /\ prev.outcome = "returned"
    /\ call[1].op = "revert" /\ call[1].pc = "done"
    /\ openingStock # call[1].before.stock
    /\ answer.query = "getProcessedInvoiceIds"
    /\ answer.ids = <<"INV-1">>
    /\ processedInvoices = {"INV-1"}

\* No id appears twice in the list.
NoDuplicates(ids) == \A i, j \in DOMAIN ids : ids[i] = ids[j] => i = j

\* What clearProcessedInvoices, removeProcessedInvoice and a new sale do, as
\* the helpers see it in the state the step leads to.
C18_ManagementStep ==
    /\ clearProcessedInvoices =>
          /\ getProcessedInvoicesCount' = 0
          /\ \A id \in InvoiceIds : ~isInvoiceProcessed(id)'
    /\ \A id \in InvoiceIds :
          removeProcessedInvoice(id) =>
              /\ ~isInvoiceProcessed(id)'
              /\ \A other \in InvoiceIds \ {id} :
                    isInvoiceProcessed(other)' = isInvoiceProcessed(other)
    /\ /\ getProcessedInvoicesCount' = Len(getProcessedInvoiceIds')
       /\ NoDuplicates(getProcessedInvoiceIds')
       /\ \A id \in InvoiceIds :
             isInvoiceProcessed(id)'
                 <=> \E i \in DOMAIN getProcessedInvoiceIds' : getProcessedInvoiceIds'[i] = id
    /\ (/\ ncalls' # ncalls
        /\ call'[1].op = "sale"
        /\ call'[1].invoiceId # None
        /\ call'[1].soldItems # <<>>
        /\ ~isInvoiceProcessed(call'[1].invoiceId))
       => /\ ~call'[1].duplicate
          /\ call'[1].pc # "done"
          /\ call'[1].log # <<>>

\* C18: after clearProcessedInvoices the count is 0 and no id is processed;
\* removeProcessedInvoice(id) leaves id not processed and every other id as it
\* was; the count is the length of the list of ids, which names each processed
\* id once; and a sale with line items whose id is not in the set, were it
\* there before or not, is applied: it is not skipped and sends its requests.
C18_ProcessedManagement == [][C18_ManagementStep]_vars

\* A sale was applied and its id marked; the id left the set and the same sale
\* changed the stock again; one id was then counted.
C18_Witness ==
    /\ prev.op = "sale" /\ prev.invoiceId = "INV-1" /\ prev.marked
    /\ prev.before.stock # call[1].before.stock
    /\ call[1].op = "sale" /\ call[1].invoiceId = "INV-1"
    /\ call[1].soldItems = prev.soldItems
    /\ "INV-1" \notin call[1].before.processed
    /\ call[1].pc = "done" /\ call[1].marked
    /\ openingStock # call[1].before.stock
    /\ answer.query = "getProcessedInvoicesCount"
    /\ answer.num = 1

(***************************************************************************)
(* Properties of the fetched ledger, checked under SpecFetch.              *)
(***************************************************************************)
\* The rows of endpoint e that belong to the party: same name whatever the
\* case, same phone number.
MatchingRows(e, partyName, phoneNumber) ==
    {i \in DOMAIN store[e] :
        /\ Lower(store[e][i].partyName) = Lower(partyName)
        /\ store[e][i].phoneNumber = phoneNumber}

\* The amounts of the rows of endpoint e in `rows` that are of a type in
\* `types`, a missing amount counted as 0.
RECURSIVE RowSum(_, _, _)
RowSum(e, rows, types) ==
    IF rows = {} THEN 0
    ELSE LET i == CHOOSE j \in rows : TRUE
             a == IF store[e][i].type \in types /\ store[e][i].amount # Undefined
                  THEN store[e][i].amount ELSE 0
         IN  a + RowSum(e, rows \ {i}, types)

\* The breakdown of the party's rows, a missing amount counted as 0.
ExpectedBreakdown(partyName, phoneNumber) ==
    LET sales == MatchingRows("sales", partyName, phoneNumber)
        purchases == MatchingRows("purchases", partyName, phoneNumber)
        payments == MatchingRows("payments", partyName, phoneNumber)
        invoiced == RowSum("sales", sales, {"invoice"})
        billed == RowSum("purchases", purchases, {"bill"})
        paidIn == RowSum("payments", payments, {"payment-in"})
        paidOut == RowSum("payments", payments, {"payment-out"})
    IN  [balance |-> invoiced - billed - paidIn + paidOut,
         totalInvoiced |-> invoiced, totalBilled |-> billed,
         totalPaymentIn |-> paidIn, totalPaymentOut |-> paidOut,
         transactionCount |-> Cardinality(sales) + Cardinality(purchases)
                                 + Cardinality(payments)]

\* Some row of the party has no amount.
AmountMissing(partyName, phoneNumber) ==
    \E e \in Endpoints : \E i \in MatchingRows(e, partyName, phoneNumber) :
        store[e][i].amount = Undefined

\* C12: a balance computation one of whose three reads was rejected throws to
\* its caller and returns no breakdown.
C12_FetchFailurePropagated ==
    \A p \in Callers :
        fetch[p].failed # None =>
            /\ fetch[p].outcome = "threw"
            /\ fetch[p].result = <<>>

\* The transactions folded that came from endpoint e.
FoldedOf(f, e) ==
    {i \in DOMAIN f.folded :
        f.folded[i].type \in (CASE e = "sales" -> {"invoice"}
                                [] e = "purchases" -> {"bill"}
                                [] e = "payments" -> {"payment-in", "payment-out"})}

\* C13: the breakdown returned is the fold of a list that holds every row of
\* the party from all three reads when none was rejected, and of the empty
\* list when one was, whichever it was: rows read before the rejected read are
\* not counted.
C13_NoPartialLedger ==
    \A p \in Callers :
        LET f == fetch[p]
        IN  f.pc = "done" =>
                /\ f.result = <<computeBalance(f.folded)>>
                /\ f.failed = None =>
                      \A e \in Endpoints :
                          Cardinality(FoldedOf(f, e))
                              = Cardinality(MatchingRows(e, f.partyName, f.phoneNumber))
                /\ f.failed # None =>
                      /\ f.folded = <<>>
                      /\ f.result = <<ZeroBreakdown>>

\* The sale and the purchase of the party were read, the payments read was
\* rejected, and the breakdown returned is all zeros.
C13_Witness ==
    LET f == fetch[0]
    IN  /\ f.pc = "done"
        /\ f.failed = "payments"
        /\ Len(f.transactions) = 2
        /\ f.result = <<ZeroBreakdown>>

\* C14: with every read answered and no amount missing, the breakdown returned
\* for (partyName, phoneNumber) is the signed sum of exactly the rows whose
\* name equals partyName ignoring case and whose phone number is phoneNumber;
\* the rows of other parties count for nothing, and every spelling of the name
\* that differs only in case gets the same breakdown.
C14_PartyFilter ==
    \A p \in Callers :
        LET f == fetch[p]
        IN  (/\ f.pc = "done" /\ f.failed = None
             /\ ~AmountMissing(f.partyName, f.phoneNumber)) =>
                /\ f.result = <<ExpectedBreakdown(f.partyName, f.phoneNumber)>>
                /\ \A k \in PartyKeys :
                      (Lower(k.name) = Lower(f.partyName) /\ k.phoneNumber = f.phoneNumber)
                          => f.result = <<ExpectedBreakdown(k.name, k.phoneNumber)>>

\* The backend holds a sale under another spelling of the party's name and a
\* purchase of the same name with another phone number: the sale is counted,
\* the purchase is not.
C14_Witness ==
    LET f == fetch[0]
    IN  /\ f.pc = "done" /\ f.failed = None
        /\ f.partyName = "Asha" /\ f.phoneNumber = "111"
        /\ Len(store.sales) = 1 /\ store.sales[1].partyName = "ASHA"
        /\ store.sales[1].phoneNumber = "111"
        /\ Len(store.purchases) = 1 /\ store.purchases[1].partyName = "Asha"
        /\ store.purchases[1].phoneNumber = "222"
        /\ store.purchases[1].amount # Undefined
        /\ f.result # <<>>
        /\ f.result[1].balance = MaxAmount
        /\ f.result[1].transactionCount = 1

\* C15: with every read answered, a row of the party without an amount counts
\* as 0: the breakdown returned is the signed sum of the other rows of the
\* party, and transactionCount counts the row.
C15_MissingAmountIsZero ==
    \A p \in Callers :
        LET f == fetch[p]
        IN  (/\ f.pc = "done" /\ f.failed = None
             /\ AmountMissing(f.partyName, f.phoneNumber)) =>
                f.result = <<ExpectedBreakdown(f.partyName, f.phoneNumber)>>

(***************************************************************************)
(* Properties of getPartiesWithBalances, checked under SpecListing.        *)
(***************************************************************************)
\* What calculatePartyBalanceFromTransactions returns for a party when it is
\* called alone and its three reads are answered.
AloneBreakdown(partyName, phoneNumber) ==
    LET sales == PushMatching(<<>>, store.sales, 1, partyName, phoneNumber)
        purchases == PushMatching(sales, store.purchases, 1, partyName, phoneNumber)
        all == PushMatching(purchases, store.payments, 1, partyName, phoneNumber)
    IN  computeBalance(SortNewestFirst(all))

\* C19: getPartiesWithBalances returns one entry per party the listing gave,
\* in the order of the listing, each with the party's name and phone number
\* and the breakdown a balance computation of that party alone returns for
\* what the backend holds: the fold of the party's rows when every read was
\* answered, all zeros when a read was rejected.  The computations share each
\* GET in flight.
C19_ListingMatchesAlone ==
    listing.pc = "done" =>
        /\ DOMAIN listing.result = DOMAIN listing.parties
        /\ listing.parties \in {<<>>, store.parties}
        /\ \A p \in DOMAIN listing.result :
              LET entry == listing.result[p]
                  party == store.parties[p]
              IN  /\ entry.name = party.name
                  /\ entry.phoneNumber = party.phoneNumber
                  /\ fetch[p].failed = None
                        => entry.breakdown = AloneBreakdown(party.name, party.phoneNumber)
                  /\ fetch[p].failed # None => entry.breakdown = ZeroBreakdown
                  /\ nfailures = 0 => fetch[p].failed = None

\* Two parties were listed; their computations shared the three reads and
\* each got its own breakdown, which differ.
C19_Witness ==
    /\ listing.pc = "done"
    /\ Len(listing.result) = 2
    /\ listing.result[1].name # listing.result[2].name
    /\ nfailures = 0
    /\ listing.result[1].breakdown.transactionCount > 0
    /\ listing.result[2].breakdown.transactionCount > 0
    /\ IsNumber(listing.result[1].breakdown.balance)
    /\ IsNumber(listing.result[2].breakdown.balance)
    /\ listing.result[1].breakdown.balance # listing.result[2].breakdown.balance

(***************************************************************************)
(* Properties of the item screens, checked under SpecForms.                *)
(***************************************************************************)
\* a and b are the same number.
SameNumber(a, b) == a.num * b.den = b.num * a.den

\* The form shows what the backend holds, untouched since it was loaded.
FormAsLoaded ==
    /\ storedItem # <<>>
    /\ itemForm # <<>>
    /\ itemForm[1] = ItemFormFor(BagsToKg(storedItem[1].openingStock),
                                  BagsToKg(storedItem[1].lowStockAlert))

\* C20 as stated: what create and edit persist is the kg typed divided by 30
\* and rounded to two decimals of a bag, and the edit form shows 30 times the
\* rounded bags: 900 kg is 30 bags and 900 kg again, 100 kg is 3.33 bags and
\* 99.9 kg.
C20_RoundedRoundTrip ==
    storedItem # <<>> =>
        /\ SameNumber(storedItem[1].openingStock, KgToBagsRounded(enteredKg[1].openingStock))
        /\ SameNumber(storedItem[1].lowStockAlert, KgToBagsRounded(enteredKg[1].lowStockAlert))
        /\ FormAsLoaded =>
              /\ SameNumber(itemForm[1].openingStock,
                            BagsToKg(KgToBagsRounded(enteredKg[1].openingStock)))
              /\ SameNumber(itemForm[1].lowStockAlert,
                            BagsToKg(KgToBagsRounded(enteredKg[1].lowStockAlert)))

\* C20, as the code has it: what create and edit persist is the kg typed
\* divided by 30, not rounded: 900 kg is 30 bags and 100 kg is 10/3 bags; and
\* the edit form shows 30 times the bags persisted, 900 kg for the 900 kg typed
\* and 100 kg for the 100 kg typed.
C20_UnitRoundTrip ==
    storedItem # <<>> =>
        /\ storedItem[1].openingStock.num * BagKg
              = enteredKg[1].openingStock.num * storedItem[1].openingStock.den
        /\ storedItem[1].lowStockAlert.num * BagKg
              = enteredKg[1].lowStockAlert.num * storedItem[1].lowStockAlert.den
        /\ enteredKg[1].openingStock = Typed(900)
              => storedItem[1].openingStock = [num |-> 30, den |-> 1]
        /\ enteredKg[1].openingStock = Typed(100)
              => storedItem[1].openingStock = [num |-> 10, den |-> 3]
        /\ FormAsLoaded =>
              /\ SameNumber(itemForm[1].openingStock,
                            BagsToKg(storedItem[1].openingStock))
              /\ enteredKg[1].openingStock \in {Typed(100), Typed(900)}
                    => itemForm[1].openingStock = enteredKg[1].openingStock
              /\ enteredKg[1].lowStockAlert \in {Typed(100), Typed(900)}
                    => itemForm[1].lowStockAlert = enteredKg[1].lowStockAlert

\* 100 kg of opening stock and 900 kg of low stock alert were typed and sent,
\* and the item was loaded into the edit form: the form shows 100 kg and the
\* backend holds 10/3 bags and 30 bags.
C20_Witness ==
    /\ FormAsLoaded
    /\ enteredKg[1].openingStock = Typed(100)
    /\ enteredKg[1].lowStockAlert = Typed(900)
    /\ itemForm[1].openingStock = Typed(100)
    /\ storedItem[1].openingStock = [num |-> 10, den |-> 3]
    /\ storedItem[1].lowStockAlert = [num |-> 30, den |-> 1]

(***************************************************************************)
(* Properties of a sale made again, checked under Spec.                    *)
(***************************************************************************)
\* What the Bardana request of the call did to the Bardana stock, in kg.
BardanaChange(cl) ==
    IF cl.log # <<>> /\ cl.log[1].req \in {"add", "subtract"} /\ cl.log[1].status = "ok"
    THEN IF cl.log[1].req = "subtract" THEN 0 - cl.log[1].value ELSE cl.log[1].value
    ELSE 0

\* No update of an item's stock by the call was accepted.
NothingUpdated(cl) ==
    \A k \in DOMAIN cl.log : cl.log[k].req = "updateItem" => cl.log[k].status # "ok"

\* C26: a sale given an id and line items that returns has marked its id,
\* also when none of its item updates was accepted (not found, or failed); and
\* when the sale that follows it has the same id and finds it marked, that
\* sale is skipped: the item stocks are what they were before the first sale
\* while the Bardana stock is down by the total of the first.
C26_MarkedThoughSkipped ==
    /\ \A cl \in {prev, call[1]} :
          (cl.op = "sale" /\ cl.pc = "done" /\ cl.outcome = "returned" /\ Applied(cl)
             /\ cl.invoiceId # None) => cl.marked
    /\ (/\ prev.op = "sale" /\ prev.pc = "done" /\ prev.outcome = "returned"
        /\ Applied(prev) /\ prev.invoiceId # None
        /\ NothingUpdated(prev)
        /\ call[1].op = "sale" /\ call[1].soldItems # <<>>
        /\ call[1].invoiceId = prev.invoiceId
        /\ call[1].invoiceId \in call[1].before.processed) =>
            /\ call[1].duplicate
            /\ call[1].pc = "done"
            /\ call[1].log = <<>>
            /\ openingStock = prev.before.stock
            /\ bardanaKg = prev.before.bardana + BardanaChange(prev)

\* A sale of 40 kg with id INV-1 reduced the Bardana stock, updated no item
\* and marked INV-1; the same sale made again was skipped.
C26_Witness ==
    /\ prev.op = "sale" /\ prev.pc = "done" /\ prev.outcome = "returned"
    /\ prev.invoiceId = "INV-1"
    /\ prev.soldItems # <<>>
    /\ ~prev.duplicate
    /\ prev.marked
    /\ NothingUpdated(prev)
    /\ \E k \in DOMAIN prev.log : prev.log[k].req = "getItems"
    /\ BardanaChange(prev) = 0 - 40
    /\ call[1].op = "sale" /\ call[1].invoiceId = "INV-1"
    /\ call[1].soldItems = prev.soldItems
    /\ call[1].duplicate
    /\ openingStock = InitialStock
    /\ bardanaKg = InitialBardanaKg - 40

(***************************************************************************)
(* Properties of two calls in flight at once, checked under SpecRace.      *)
(***************************************************************************)
\* C24: the idempotence guard looks only at the ids already marked when the
\* call starts, never at the calls in flight: a sale given line items is
\* skipped as a duplicate exactly when its id was in the processed set at its
\* start, and every Bardana request that was answered has changed the Bardana
\* stock, so two sales with the same id, both started before either marks it,
\* both reduce it.
C24_InFlightUnguarded ==
    /\ \A c \in Slots :
          (call[c].op = "sale" /\ ~call[c].missing /\ call[c].soldItems # <<>>) =>
              (call[c].duplicate <=>
                  (call[c].invoiceId # None
                     /\ call[c].invoiceId \in call[c].before.processed))
    /\ bardanaKg = InitialBardanaKg + BardanaChange(call[1]) + BardanaChange(call[2])

\* Two sales with the same id and the same items: neither found the id
\* processed, both have returned, and the Bardana stock is down by twice the
\* total of the document.
C24_Witness ==
    /\ \A c \in Slots :
          /\ call[c].op = "sale"
          /\ call[c].pc = "done"
          /\ call[c].outcome = "returned"
          /\ ~call[c].duplicate
          /\ call[c].soldItems = lineItems
          /\ call[c].before.processed = {}
          /\ call[c].log[1].req = "subtract"
          /\ call[c].log[1].status = "ok"
    /\ call[1].invoiceId = "INV-1"
    /\ call[2].invoiceId = "INV-1"
    /\ processedInvoices = {"INV-1"}
    /\ totalQuantity(lineItems) > 0
    /\ bardanaKg = InitialBardanaKg - 2 * totalQuantity(lineItems)

\* C25: the stock a call writes is computed from the stock it read when its
\* lookup was answered, and the store keeps what was written last: when the
\* update of a call is accepted the item's stock is the new stock of that call,
\* whatever another call wrote since the read.
C25_LastWriteWins ==
    [][\A c \in Slots :
          LET k == Len(call[c].log)
          IN  (call[c].pc = "update" /\ call'[c] # call[c]
                 /\ call'[c].log[k].status = "ok") =>
                  /\ call[c].log[k].req = "updateItem"
                  /\ openingStock'[call[c].log[k].name]
                        = newStockFor(call[c].op, call[c].log[k].read, call[c].log[k].quantity)
      ]_vars

\* Two sales of 40 kg of Rice with different ids both read 2 bags before
\* either wrote: both updates were accepted and the stock is 0.67 bags, one
\* sale short of what the two together take off.
C25_Witness ==
    /\ \A c \in Slots :
          /\ call[c].op = "sale"
          /\ call[c].pc = "done"
          /\ \E k \in Entries(call[c].log, "updateItem", "Rice") :
                /\ call[c].log[k].status = "ok"
                /\ call[c].log[k].read = InitialStock["Rice"]
                /\ call[c].log[k].quantity = 40
    /\ call[1].invoiceId = "INV-1"
    /\ call[2].invoiceId = "INV-2"
    /\ openingStock["Rice"] = saleNewStock(InitialStock["Rice"], 40)
    /\ openingStock["Rice"] # saleNewStock(saleNewStock(InitialStock["Rice"], 40), 40)

(***************************************************************************)
(* Properties of a sale, its revert and the sale again, checked under      *)
(* SpecSequence.                                                           *)
(***************************************************************************)
\* The call returned and every request it sent was accepted.
Succeeded(cl) ==
    /\ cl.pc = "done"
    /\ cl.outcome = "returned"
    /\ \A k \in DOMAIN cl.log : cl.log[k].status = "ok"

\* The first sale was applied with an id, the revert of the same items
\* followed it, and the sale was then made again with that id, still marked.
SaleRevertSale ==
    /\ prev.op = "sale" /\ Applied(prev) /\ Succeeded(prev)
    /\ prev.invoiceId # None
    /\ call[2].op = "revert" /\ call[2].soldItems = prev.soldItems /\ Succeeded(call[2])
    /\ call[1].op = "sale" /\ call[1].soldItems = prev.soldItems
    /\ call[1].invoiceId = prev.invoiceId
    /\ ncalls = MaxSequence
    /\ call[1].invoiceId \in call[1].before.processed

\* C27: after applyOnSale(items, id), revertOnSale(items) and
\* applyOnSale(items, id), with the id not removed from the processed set in
\* between, the third call is skipped as a duplicate and the stock is at its
\* value before the first sale.
C27_SkippedAtPreSaleStock ==
    SaleRevertSale =>
        /\ call[1].duplicate
        /\ call[1].pc = "done"
        /\ openingStock = prev.before.stock
        /\ bardanaKg = prev.before.bardana

\* C27 without the stock returning to its value before the sale: the third
\* call is skipped as a duplicate, sends nothing and leaves the store as the
\* revert left it; with the id removed or the set cleared in between it is
\* applied again.
C27_ThirdCallSkipped ==
    /\ SaleRevertSale =>
          /\ call[1].duplicate
          /\ call[1].pc = "done"
          /\ call[1].log = <<>>
          /\ openingStock = call[1].before.stock
          /\ bardanaKg = call[1].before.bardana
          /\ bardanaKg = prev.before.bardana
    /\ (/\ prev.op = "sale" /\ Applied(prev) /\ Succeeded(prev)
        /\ call[2].op = "revert" /\ Succeeded(call[2])
        /\ call[1].op = "sale" /\ call[1].soldItems = prev.soldItems
        /\ call[1].invoiceId = prev.invoiceId
        /\ ncalls = MaxSequence
        /\ call[1].invoiceId \notin call[1].before.processed) => ~call[1].duplicate

\* Three calls were made and the third was skipped.
C27_ThirdCallSkippedWitness ==
    /\ SaleRevertSale
    /\ call[1].duplicate
    /\ \E n \in ProductNames : prev.before.stock[n] # call[2].before.stock[n]

(***************************************************************************)
(* Properties of the item catalogue, checked under SpecCatalogue.          *)
(***************************************************************************)
BardanaExists(items) == \E i \in items : i.isUniversal /\ i.productName = "Bardana"

\* C21: no deleteItem request is sent for an item whose isUniversal flag is
\* set, and once the backend holds the universal item Bardana no operation of
\* the two screens takes it away.
C21_BardanaNeverDeleted ==
    /\ [](\A d \in deleteRequests : ~d.isUniversal)
    /\ [][BardanaExists(catalogue) => BardanaExists(catalogue')]_vars

\* An item was deleted, and the edit screen is open on Bardana, which the
\* backend still holds.
C21_Witness ==
    /\ deleteRequests # {}
    /\ \E d \in deleteRequests : d.id \notin {i.id : i \in catalogue}
    /\ BardanaExists(catalogue)
    /\ editedItem # <<>>
    /\ editedItem[1].isUniversal
    /\ editedItem[1].productName = "Bardana"

\* C22: no two items that are not universal have product names that are
\* equal ignoring case.
C22_UniqueNames ==
    \A i, j \in catalogue :
        (~i.isUniversal /\ ~j.isUniversal /\ i.id # j.id) =>
            Lower(i.productName) # Lower(j.productName)

(***************************************************************************)
(* Properties of the line items, checked under SpecLines.                  *)
(***************************************************************************)
\* C23: on the sale, purchase and edit forms every line item has
\* total = quantity * rate, and on the add-items screen every selected item
\* has totalPrice = weightKg * pricePerKg: an edit of the quantity, the rate
\* or the weight leaves the total recomputed.
C23_LineTotals ==
    /\ \A k \in DOMAIN lineForms.items :
          lineForms.items[k].total
             = Mul(lineForms.items[k].quantity, lineForms.items[k].rate)
    /\ \A k \in DOMAIN lineForms.selectedItems :
          lineForms.selectedItems[k].totalPrice
             = Mul(lineForms.selectedItems[k].weightKg, lineForms.selectedItems[k].pricePerKg)

\* The edit screen of an invoice holds a line whose quantity and rate were
\* both edited after the add-items screen delivered it (40 at 2 is 80), and a
\* second line as delivered (2 kg at 3 is 6).
C23_Witness ==
    /\ lineForms.screen = "edit-invoice"
    /\ Len(lineForms.items) = 2
    /\ lineForms.items[1].quantity = 40
    /\ lineForms.items[1].rate = 2
    /\ lineForms.items[1].total = 80
    /\ lineForms.items[2].quantity = 2
    /\ lineForms.items[2].rate = 3
    /\ lineForms.items[2].total = 6
    /\ lineForms.editingItem = 0


(***************************************************************************)
(* Properties of apiRequest, checked under SpecApi.                        *)
(***************************************************************************)
GetFetches == {f \in api.fetches : isGetRequest(f.method)}

Holders(f) == {p \in Clients : api.calls[p].promise = f}

\* The call of p has settled.
HasOutcome(p) == api.calls[p].outcome \in {"resolved", "rejected"}

\* C28: at any time at most one fetch is in flight for a GET URL; the callers
\* that share the promise of a GET get the same outcome of the same fetch;
\* requestCache holds exactly the GET fetches in flight, so that the key is
\* gone once the fetch has settled, ok or failed, and the next GET of the URL
\* starts a new fetch; a request that is not a GET is never in requestCache
\* and never shares a fetch.
C28_GetDeduplicated ==
    /\ [](/\ \A f, g \in GetFetches : f.url = g.url => f = g
          /\ api.requestCache
                = {[key |-> cacheKey(f.method, f.url), promise |-> f.id] : f \in GetFetches}
          /\ \A p, q \in Clients :
                (api.calls[p].promise = api.calls[q].promise /\ HasOutcome(p) /\ HasOutcome(q))
                    => (/\ api.calls[p].outcome = api.calls[q].outcome
                        /\ api.calls[p].data = api.calls[q].data)
          /\ \A p \in Clients :
                (api.calls[p].promise # 0 /\ ~isGetRequest(api.calls[p].method))
                    => Holders(api.calls[p].promise) = {p})
    /\ [][\A p \in Clients, url \in Urls :
            (api.calls'[p] # api.calls[p] /\ api.calls'[p].outcome = "pending"
                /\ api.calls'[p].url = url)
                => IF isGetRequest(api.calls'[p].method)
                         /\ \E f \in GetFetches : f.url = url
                   THEN /\ api.fetches' = api.fetches
                        /\ \E f \in GetFetches :
                              f.url = url /\ api.calls'[p].promise = f.id
                   ELSE /\ api.issued' = api.issued + 1
                        /\ api.calls'[p].promise = api.issued'
                        /\ api.fetches' = api.fetches
                              \cup {[id |-> api.issued', method |-> api.calls'[p].method,
                                     url |-> url]}]_vars

\* Two callers shared the first GET of a URL and were rejected together, a
\* later GET of the same URL started a second fetch, and two PUTs to one URL
\* are not shared.
C28_Witness ==
    /\ api.calls[1].promise = 1 /\ api.calls[2].promise = 1
    /\ api.calls[1].outcome = "rejected" /\ api.calls[2].outcome = "rejected"
    /\ isGetRequest(api.calls[1].method) /\ api.calls[2].method = None
    /\ api.calls[3].promise = 2 /\ api.calls[3].method = "GET"
    /\ api.calls[3].url = api.calls[1].url
    /\ api.calls[3].outcome = "pending"
    /\ CachedPromise(cacheKey("GET", api.calls[3].url)) = 2

\* Two PUTs to one URL are in flight at once, each with its own fetch.
C28_WitnessPut ==
    /\ api.calls[1].method = "PUT" /\ api.calls[2].method = "PUT"
    /\ api.calls[1].url = api.calls[2].url
    /\ api.calls[1].outcome = "pending" /\ api.calls[2].outcome = "pending"
    /\ api.calls[1].promise # api.calls[2].promise
    /\ api.requestCache = {}


(***************************************************************************)
(* Properties of the payment edit screens, checked under SpecPayEdit.      *)
(***************************************************************************)
\* The save ended with every request answered ok and the party found.
BalanceUpdated ==
    /\ payEdit.pc = "done"
    /\ payEdit.sent # <<>>
    /\ payEdit.balance # payEdit.balanceBefore

\* The change the ledger sign rule asks of the stored balance when the
\* amount of the payment goes from a to b.
LedgerChange(screen, a, b) == IF screen = "payment-in" THEN -(b - a) ELSE b - a

\* C29: an edit of a payment-in from a to b changes the stored balance by
\* -(b - a), an edit of a payment-out by +(b - a), whether b is greater or
\* smaller than a; with b = a no balance update is sent.
C29_BalanceFollowsEdit ==
    /\ (payEdit.pc = "updatePartyBalance" \/ payEdit.sent # <<>>)
            => payEdit.amountDifference # 0
    /\ (payEdit.pc = "done" /\ payEdit.amountDifference = 0) => payEdit.sent = <<>>
    /\ (payEdit.pc = "done" /\ payEdit.sent # <<>> /\ nfailures = 0)
            => payEdit.balance - payEdit.balanceBefore
                  = LedgerChange(payEdit.screen, payEdit.original, payEdit.stored)

\* What the screens do: the balance update is sent only when the amount
\* changed, and for a larger amount it follows the sign rule; for a smaller
\* amount the balance moves the same way as for a larger one.
C29_BalanceMovesOneWay ==
    /\ (payEdit.pc = "updatePartyBalance" \/ payEdit.sent # <<>>)
            => payEdit.amountDifference # 0
    /\ (payEdit.pc = "done" /\ payEdit.amountDifference = 0) => payEdit.sent = <<>>
    /\ (payEdit.pc = "done" /\ payEdit.sent # <<>> /\ nfailures = 0)
            => payEdit.balance - payEdit.balanceBefore
                  = LedgerChange(payEdit.screen, 0, Abs(payEdit.stored - payEdit.original))

\* A payment-in of 4 was saved as 5 and the balance went down by 1; the
\* sign rule is kept for b > a.
C29_WitnessLarger ==
    /\ BalanceUpdated
    /\ payEdit.screen = "payment-in"
    /\ payEdit.original = 4 /\ payEdit.stored = 5
    /\ payEdit.balance = payEdit.balanceBefore - 1

\* A payment was saved with its amount as loaded and nothing was sent.
C29_WitnessSame ==
    /\ payEdit.pc = "done"
    /\ payEdit.stored = payEdit.original
    /\ payEdit.sent = <<>>
    /\ payEdit.listed


(***************************************************************************)
(* Properties of the two balance entry points, checked under SpecBalance.  *)
(***************************************************************************)
\* C30: for the same stored transactions of a party, with every read
\* succeeding, getPartyBalance returns the balance field of what
\* calculatePartyBalanceFromTransactions returns.
C30_EntryPointsAgree ==
    (partyBalance.value # <<>> /\ partyBalance.readsOk /\ breakdown # <<>>)
        => partyBalance.value[1] = breakdown[1].balance

\* Both entry points ran, reads succeeding, over a list with a transaction of
\* each of the four types, and returned the same balance, which is not 0.
C30_Witness ==
    /\ partyBalance.value # <<>> /\ partyBalance.readsOk /\ breakdown # <<>>
    /\ {transactions[i].type : i \in DOMAIN transactions} = TxTypes
    /\ partyBalance.value[1] = breakdown[1].balance
    /\ partyBalance.value[1] # 0

====
